---- MODULE Spec2Model ----
(***************************************************************************)
(* Leasing assistant backend: the per-client conversation memory           *)
(* (AgentService, ClientMemory), the preference merger                     *)
(* (PreferenceExtractor.update_preferences) and the turn pipeline          *)
(* (ClaudeAgentService.process_message).                                   *)
(*                                                                         *)
(* Python values are tagged records [t, v]; t is the Python/JSON type.     *)
(* Confidence scores are kept in hundredths (0.95 is 95).                  *)
(***************************************************************************)
EXTENDS Integers, Sequences, FiniteSets, TLC

VARIABLES
    \* ---- AgentService (backend/app/services/agent.py) ----
    apiKey,        \* config.get("llm.claude_api_key") is set
    initialized,   \* AgentService._initialized
    memory,        \* AgentService._short_term_memory: client id -> ClientMemory or NoMemory
    pc,            \* position of the turn being processed ("idle" when none is)
    turn,          \* the locals of the turn being processed
    last,          \* the last completed operation and what it returned
    now,           \* datetime.now(), a logical clock
    turns,         \* number of turns accepted so far
    \* ---- a ClientPreferences object under a sequence of merges ----
    prefs,         \* the profile
    prevPrefs,     \* the profile the last merge was given
    extracted,     \* the extractor output the last merge was given
    source,        \* the source message the last merge was given
    mergeRaised,   \* the last merge raised
    merges,        \* number of merges so far
    \* ---- the event loop serving the requests (backend/app/api/routes.py) ----
    tasks,         \* the handler task of each request: where it is and what it did
    running,       \* the task the loop is running, NoTask when it is free to pick one
    \* ---- the catalog (mcp_server/data/inventory.py, vector_search.py) ----
    inventory,          \* InventoryService: units, pet_policies, specials as loaded
    pet_vector_search,  \* the PetPolicyVectorSearch object
    lookup,             \* the last catalog or matcher call and what it gave
    loading             \* the reload_data call made last or in progress

serviceVars == <<apiKey, initialized, memory, pc, turn, last, turns>>
mergeVars == <<prefs, prevPrefs, extracted, source, mergeRaised, merges>>
loopVars == <<tasks, running>>
catalogVars == <<inventory, pet_vector_search, lookup, loading>>
vars == <<apiKey, initialized, memory, pc, turn, last, now, turns,
          prefs, prevPrefs, extracted, source, mergeRaised, merges, tasks, running,
          inventory, pet_vector_search, lookup, loading>>

----------------------------------------------------------------------------
(* Bounds *)

MaxMerges == 2
MaxTurns == 2
MaxMessages == 3
MaxTasks == 2

----------------------------------------------------------------------------
(* Python / JSON values *)

Null == [t |-> "null", v |-> 0]
PyInt(n) == [t |-> "int", v |-> n]
PyBool(b) == [t |-> "bool", v |-> b]
PyStr(s) == [t |-> "str", v |-> s]
PyList(l) == [t |-> "list", v |-> l]
\* a JSON array holding an array: its elements are not all hashable
BadList == [t |-> "badlist", v |-> <<>>]
PyDict(d) == [t |-> "dict", v |-> d]
PyTime(n) == [t |-> "datetime", v |-> n]

EmptyDict == [k \in {} |-> 0]

Range(s) == {s[i] : i \in DOMAIN s}

NoDuplicates(s) == \A i, j \in DOMAIN s : i # j => s[i] # s[j]

----------------------------------------------------------------------------
(* ClientPreferences (backend/app/models/schemas.py) *)

ScalarFields ==
    {"bedrooms", "bathrooms", "min_sqft", "max_sqft", "max_rent", "move_in_date",
     "floor_preferences", "has_pets", "noise_sensitivity", "budget_conscious",
     "prefers_tours", "urgency_level"}

ListFields == {"pet_types", "amenity_priorities", "preferred_communities"}

MetaFields == {"confidence_scores", "last_updated", "source_messages"}

PreferenceFields == ScalarFields \cup ListFields

ModelFields == PreferenceFields \cup MetaFields

\* attributes every pydantic model has that are not fields of it
ModelAttributes == {"model_dump"}

\* ClientPreferences(): every Optional field None, every list and dict empty
ClientPreferences(t) ==
    [f \in ModelFields |->
        CASE f \in ScalarFields -> Null
          [] f \in ListFields -> PyList(<<>>)
          [] f = "confidence_scores" -> PyDict(EmptyDict)
          [] f = "source_messages" -> PyList(<<>>)
          [] OTHER -> PyTime(t)]

----------------------------------------------------------------------------
(* Texts.  A text is a Python str; str.lower and the substring test `in`   *)
(* are tabulated for the texts and the keywords the program looks for.     *)

MsgBedroom == "I need a 2-Bedroom, budget $2000"
MsgCats == "Do you allow cats?"
MsgAsap == "I need to move ASAP"

Messages == {MsgBedroom, MsgCats, MsgAsap}

\* what the language model answers
ReplyTour == "Would you like to Schedule a Tour?"
ReplyClarify == "Could you tell me your budget?"
ReplyHandoff == "Let me connect you with a Leasing Specialist."
ReplyPlain == "We have two units."
ReplyMixed == "Could you tell me a Tour Time, or talk to a specialist?"
ReplyChecking == "Let me check that for you."
ReplyAskOrHandoff == "Could you tell me more, or talk to a Specialist?"

ReplyTexts == {ReplyTour, ReplyClarify, ReplyHandoff, ReplyPlain, ReplyMixed, ReplyAskOrHandoff}

\* str.lower()
Lower(s) ==
    CASE s = MsgBedroom -> "i need a 2-bedroom, budget $2000"
      [] s = MsgCats -> "do you allow cats?"
      [] s = MsgAsap -> "i need to move asap"
      [] s = ReplyTour -> "would you like to schedule a tour?"
      [] s = ReplyClarify -> "could you tell me your budget?"
      [] s = ReplyHandoff -> "let me connect you with a leasing specialist."
      [] s = ReplyPlain -> "we have two units."
      [] s = ReplyChecking -> "let me check that for you."
      [] s = ReplyMixed -> "could you tell me a tour time, or talk to a specialist?"
      [] s = ReplyAskOrHandoff -> "could you tell me more, or talk to a specialist?"
      [] s = " Kitten " -> " kitten "
      [] OTHER -> s

\* the keywords and phrase markers k the program looks for with `k in s`
Occurs(s) ==
    CASE s = MsgBedroom -> {"$", "budget"}
      [] s = "i need a 2-bedroom, budget $2000" -> {"$", "budget", "bedroom", "bed"}
      [] s = MsgCats -> {"cat"}
      [] s = "do you allow cats?" -> {"cat"}
      [] s = MsgAsap -> {"move"}
      [] s = "i need to move asap" -> {"move", "asap"}
      [] s = "would you like to schedule a tour?" -> {"schedule a tour"}
      [] s = "could you tell me your budget?" -> {"could you tell me", "budget"}
      [] s = "let me connect you with a leasing specialist."
            -> {"connect you with", "leasing specialist", "specialist"}
      [] s = ReplyMixed -> {"specialist"}
      [] s = "could you tell me a tour time, or talk to a specialist?"
            -> {"could you tell me", "tour time", "specialist"}
      [] s = "could you tell me more, or talk to a specialist?"
            -> {"could you tell me", "specialist"}
      [] OTHER -> {}

AnyIn(words, s) == \E w \in words : w \in Occurs(s)

----------------------------------------------------------------------------
(* PreferenceExtractor (backend/app/services/preference_extractor.py) *)

\* _calculate_confidence, in hundredths
_calculate_confidence(key, value, message) ==
    LET message_lower == Lower(message) IN
    IF key = "bedrooms" /\ AnyIn({"bedroom", "bed"}, message_lower) THEN 95
    ELSE IF key = "max_rent" /\ ("$" \in Occurs(message) \/ "budget" \in Occurs(message_lower)) THEN 90
    ELSE IF key = "has_pets" /\ AnyIn({"pet", "dog", "cat", "animal"}, message_lower) THEN 95
    ELSE IF key = "urgency_level" THEN
        IF AnyIn({"asap", "urgent", "immediately", "soon"}, message_lower) THEN 90
        ELSE IF AnyIn({"flexible", "no rush", "browsing"}, message_lower) THEN 85
        ELSE 70
    ELSE IF key = "move_in_date" /\ AnyIn({"move", "available", "date"}, message_lower) THEN 85
    ELSE IF key \in {"budget_conscious", "noise_sensitivity"} THEN 70
    ELSE 80

\* hasattr(updated_prefs, key)
HasAttr(key) == key \in ModelFields \cup ModelAttributes

\* a merge of lists that keeps an element only when it occurs once
ListOfSetOnlyUnique(l, ord) ==
    LET Once(x) == Cardinality({i \in DOMAIN l : l[i] = x}) = 1 IN SelectSeq(ord, Once)

\* current_list + value, with no set in between
ListOfSetKeepAll(l, ord) == l

\* list(set(l)): the distinct elements of l, in the set's iteration order ord
ListOfSet(l, ord) ==
    LET Member(x) == x \in Range(l) IN SelectSeq(ord, Member)

\* updated_prefs.confidence_scores[key] = confidence; TypeError unless it is a dict
SetConfidence(p, key, confidence) ==
    LET cs == p["confidence_scores"] IN
    IF cs.t # "dict" THEN [raised |-> TRUE, prefs |-> p]
    ELSE [raised |-> FALSE,
          prefs |-> [p EXCEPT !["confidence_scores"] =
                        PyDict([k \in DOMAIN cs.v \cup {key} |->
                                    IF k = key THEN confidence ELSE cs.v[k]])]]

\* a loop body that fills a scalar field only while it is still None
MergeItemKeepOld(p, key, value, message, ord) ==
    IF ~(HasAttr(key) /\ value # Null) THEN [raised |-> FALSE, prefs |-> p]
    ELSE IF key \in ListFields THEN
        LET current_list == p[key].v IN
        IF value.t = "list" THEN
            SetConfidence([p EXCEPT ![key] = PyList(ListOfSet(current_list \o value.v, ord))],
                          key, _calculate_confidence(key, value, message))
        ELSE IF value.t = "badlist" THEN [raised |-> TRUE, prefs |-> p]
        ELSE IF value.t = "str" THEN
            SetConfidence(IF value.v \in Range(current_list) THEN p
                          ELSE [p EXCEPT ![key] = PyList(Append(current_list, value.v))],
                          key, _calculate_confidence(key, value, message))
        ELSE SetConfidence(p, key, _calculate_confidence(key, value, message))
    ELSE IF key \notin ModelFields THEN [raised |-> TRUE, prefs |-> p]
    ELSE SetConfidence(IF key \in ScalarFields /\ p[key] # Null THEN p
                       ELSE [p EXCEPT ![key] = value],
                       key, _calculate_confidence(key, value, message))

\* one iteration of the loop over extracted_prefs.items()
MergeItem(p, key, value, message, ord) ==
    IF ~(HasAttr(key) /\ value # Null) THEN [raised |-> FALSE, prefs |-> p]
    ELSE IF key \in ListFields THEN
        LET current_list == p[key].v IN
        IF value.t = "list" THEN
            SetConfidence([p EXCEPT ![key] = PyList(ListOfSet(current_list \o value.v, ord))],
                          key, _calculate_confidence(key, value, message))
        ELSE IF value.t = "badlist" THEN [raised |-> TRUE, prefs |-> p]
        ELSE IF value.t = "str" THEN
            SetConfidence(IF value.v \in Range(current_list) THEN p
                          ELSE [p EXCEPT ![key] = PyList(Append(current_list, value.v))],
                          key, _calculate_confidence(key, value, message))
        ELSE SetConfidence(p, key, _calculate_confidence(key, value, message))
    ELSE IF key \notin ModelFields THEN [raised |-> TRUE, prefs |-> p]
    ELSE SetConfidence([p EXCEPT ![key] = value], key,
                       _calculate_confidence(key, value, message))

RECURSIVE MergeItems(_, _, _, _, _)
MergeItems(p, items, i, message, ord) ==
    IF i > Len(items) THEN [raised |-> FALSE, prefs |-> p]
    ELSE LET r == MergeItem(p, items[i].key, items[i].value, message, ord) IN
         IF r.raised THEN r ELSE MergeItems(r.prefs, items, i + 1, message, ord)

\* `if source_message not in source_messages: source_messages.append(...)`
AppendSource(p, message) ==
    LET sm == p["source_messages"] IN
    CASE sm.t = "list" ->
            [raised |-> FALSE,
             prefs |-> IF message \in Range(sm.v) THEN p
                       ELSE [p EXCEPT !["source_messages"] = PyList(Append(sm.v, message))]]
      [] sm.t = "str" -> [raised |-> sm.v # message, prefs |-> p]
      [] sm.t = "dict" -> [raised |-> message \notin DOMAIN sm.v, prefs |-> p]
      [] OTHER -> [raised |-> TRUE, prefs |-> p]

\* bool(extracted_prefs)
Truthy(e) == e.t # "null" /\ e.v # <<>>

\* update_preferences working on the object it is given, not on a deep copy
update_preferences_in_place(current_prefs, extracted_prefs, source_message, ord, t) ==
    IF ~Truthy(extracted_prefs) THEN [raised |-> FALSE, prefs |-> current_prefs]
    ELSE IF extracted_prefs.t # "object" THEN [raised |-> TRUE, prefs |-> current_prefs]
    ELSE LET r == MergeItems(current_prefs, extracted_prefs.v, 1, source_message, ord) IN
         IF r.raised THEN [raised |-> TRUE, prefs |-> r.prefs]
         ELSE LET a == AppendSource(r.prefs, source_message) IN
              IF a.raised THEN [raised |-> TRUE, prefs |-> a.prefs]
              ELSE [raised |-> FALSE,
                    prefs |-> [a.prefs EXCEPT !["last_updated"] = PyTime(t)]]

\* update_preferences: [raised, prefs]; when it raises the caller gets no object
update_preferences(current_prefs, extracted_prefs, source_message, ord, t) ==
    IF ~Truthy(extracted_prefs) THEN [raised |-> FALSE, prefs |-> current_prefs]
    ELSE IF extracted_prefs.t # "object" THEN [raised |-> TRUE, prefs |-> current_prefs]
    ELSE LET r == MergeItems(current_prefs, extracted_prefs.v, 1, source_message, ord) IN
         IF r.raised THEN [raised |-> TRUE, prefs |-> current_prefs]
         ELSE LET a == AppendSource(r.prefs, source_message) IN
              IF a.raised THEN [raised |-> TRUE, prefs |-> current_prefs]
              ELSE [raised |-> FALSE,
                    prefs |-> [a.prefs EXCEPT !["last_updated"] = PyTime(t)]]

----------------------------------------------------------------------------
(* Extractor outputs: what json.loads can return for the model's answer *)

Pair(k, val) == [key |-> k, value |-> val]
Obj(items) == [t |-> "object", v |-> items]
\* a JSON array: not a dict, and true as a condition
NonDict == [t |-> "array", v |-> <<"dog">>]

\* the elements list-valued preferences are made of
ListElems == {"dog", "cat", "gym"}

\* the orders in which a Python set of strings can be iterated
Orders == {o \in [1..Cardinality(ListElems) -> ListElems] : Range(o) = ListElems}

ExtractedObjects ==
    { Obj(<<>>),
      Obj(<<Pair("bedrooms", PyInt(2)), Pair("max_rent", PyInt(2000))>>),
      Obj(<<Pair("bedrooms", PyInt(1))>>),
      Obj(<<Pair("has_pets", PyBool(TRUE)), Pair("pet_types", PyList(<<"cat">>))>>),
      Obj(<<Pair("pet_types", PyList(<<"dog", "cat", "dog">>))>>),
      Obj(<<Pair("pet_types", PyStr("dog"))>>),
      Obj(<<Pair("amenity_priorities", PyList(<<"gym">>)), Pair("bedrooms", Null)>>),
      Obj(<<Pair("preferred_communities", PyStr("gym")), Pair("urgency_level", PyStr("urgent"))>>),
      Obj(<<Pair("pet_friendly", PyBool(TRUE))>>),
      Obj(<<Pair("pet_types", PyInt(3))>>),
      Obj(<<Pair("max_rent", PyInt(1500)), Pair("pet_types", BadList)>>),
      Obj(<<Pair("confidence_scores", PyDict([k \in {"bathrooms"} |-> 90]))>>),
      Obj(<<Pair("confidence_scores", PyInt(1))>>),
      Obj(<<Pair("bedrooms", PyInt(2)),
            Pair("confidence_scores", PyDict([k \in {"bedrooms"} |-> 500]))>>),
      Obj(<<Pair("source_messages", PyList(<<"cat">>))>>),
      Obj(<<Pair("source_messages", PyInt(0))>>),
      Obj(<<Pair("last_updated", PyStr("2025-01-01"))>>),
      Obj(<<Pair("model_dump", PyInt(1))>>),
      NonDict,
      Null }

----------------------------------------------------------------------------
(* A ClientPreferences object under a sequence of merges:                  *)
(* self.preferences = update_preferences(self.preferences, extracted, msg) *)
(* as ClientMemory.add_message does it, the object kept when it raises.    *)

MergeInit ==
    /\ prefs = ClientPreferences(0)
    /\ prevPrefs = ClientPreferences(0)
    /\ extracted = Null
    /\ source = ""
    /\ mergeRaised = FALSE
    /\ merges = 0
    /\ now = 0

Merge(e, m, ord) ==
    /\ merges < MaxMerges
    /\ LET r == update_preferences(prefs, e, m, ord, now + 1) IN
        /\ prefs' = r.prefs
        /\ mergeRaised' = r.raised
    /\ prevPrefs' = prefs
    /\ extracted' = e
    /\ source' = m
    /\ merges' = merges + 1
    /\ now' = now + 1

----------------------------------------------------------------------------
(* Requests (backend/app/models/schemas.py: Lead, Preferences, ChatRequest) *)

ClientIds == {"c1", "c2"}

Lead(name) == [name |-> name, email |-> "lead@example.com"]

StatedPreferences == [t |-> "Preferences", v |-> [bedrooms |-> 3, move_in |-> "2025-08-01"]]

ChatRequest(client_id, name, message, preferences, community_id) ==
    [client_id |-> client_id, lead |-> Lead(name), message |-> message,
     preferences |-> preferences, community_id |-> community_id]

Requests ==
    { ChatRequest("c1", "Jane Smith", MsgBedroom, StatedPreferences, "sunset-ridge"),
      ChatRequest("c1", "John", MsgCats, Null, "unknown"),
      ChatRequest("c2", "John", MsgCats, StatedPreferences, "sunset-ridge"),
      ChatRequest("c2", "Jane Smith", MsgBedroom, Null, "unknown"),
      ChatRequest("c1", "", MsgCats, Null, "sunset-ridge"),
      ChatRequest("c2", "   ", MsgBedroom, Null, "sunset-ridge") }

\* str.split(): the words of a name
Split(name) ==
    CASE name = "Jane Smith" -> <<"Jane", "Smith">>
      [] name = "John" -> <<"John">>
      [] name = "" -> <<>>
      [] name = "   " -> <<>>
      [] OTHER -> <<name>>

----------------------------------------------------------------------------
(* ClientMemory (backend/app/services/agent.py) *)

Message(role, content) == [role |-> role, content |-> content]

\* ClientMemory.__init__
ClientMemory(preference_extractor, t) ==
    [messages |-> <<>>,
     lead_info |-> Null,
     preferences |-> ClientPreferences(t),
     community_id |-> Null,
     preference_extractor |-> preference_extractor]

\* ClientMemory.update_context: the request's preferences are not stored
update_context(mem, lead, preferences, community_id) ==
    [mem EXCEPT !.lead_info = [t |-> "dict", v |-> lead],
                !.community_id = PyStr(community_id)]

\* an add_message that puts the new entry in front
add_message_in_front(mem, role, content, e, ord, t) ==
    [mem EXCEPT !.messages = <<Message(role, content)>> \o @]

\* self.messages.append({"role": role, "content": content})
append_message(mem, role, content) ==
    [mem EXCEPT !.messages = Append(@, Message(role, content))]

\* a merge that starts from an empty profile instead of the stored one
merge_extracted_fresh(mem, content, e, ord, t) ==
    IF ~Truthy(e) THEN mem
    ELSE LET r == update_preferences(ClientPreferences(t), e, content, ord, t) IN
         IF r.raised THEN mem ELSE [mem EXCEPT !.preferences = r.prefs]

\* `if extracted_prefs: self.preferences = update_preferences(self.preferences, ...)`
\* inside the try: self.preferences is read and written after the extractor's
\* answer is there; what the merge raises is swallowed
merge_extracted(mem, content, e, ord, t) ==
    IF ~Truthy(e) THEN mem
    ELSE LET r == update_preferences(mem.preferences, e, content, ord, t) IN
         IF r.raised THEN mem ELSE [mem EXCEPT !.preferences = r.prefs]

\* ClientMemory.add_message: e is what extract_preferences returns for the message
add_message(mem, role, content, e, ord, t) ==
    LET appended == append_message(mem, role, content) IN
    IF role = "user" /\ mem.preference_extractor
    THEN merge_extracted(appended, content, e, ord, t)
    ELSE appended

\* ClientMemory.get_conversation_history
get_conversation_history(mem) == mem.messages

----------------------------------------------------------------------------
(* ClaudeAgentService (backend/app/services/claude_agent.py) *)

KnownTools == {"check_availability", "check_pet_policy", "get_pricing"}

\* a tool_use block; args tells whether the tool's arguments are all there
\* ("valid"), lack a required one ("missing", a KeyError), or hold a date
\* that datetime.strptime rejects ("malformed_date", a ValueError)
ToolUse(id, name, args) == [id |-> id, name |-> name, args |-> args]

ToolCallLists ==
    { <<ToolUse("t1", "check_availability", "valid")>>,
      <<ToolUse("t1", "get_pricing", "malformed_date"), ToolUse("t2", "check_pet_policy", "valid")>>,
      <<ToolUse("t1", "unknown_tool", "valid"), ToolUse("t2", "check_availability", "missing"),
        ToolUse("t3", "check_pet_policy", "valid")>> }

\* a response of the language model: its text blocks and its tool_use blocks
LLMResponses ==
    {[text |-> txt, tool_calls |-> <<>>] : txt \in ReplyTexts}
    \cup {[text |-> ReplyChecking, tool_calls |-> tc] : tc \in ToolCallLists}
    \cup {[text |-> ReplyTour, tool_calls |-> <<ToolUse("t9", "get_pricing", "valid")>>]}

\* the call of the tool raises inside the try of _execute_tool_calls
ToolRaises(tool_call) == tool_call.name \in KnownTools /\ tool_call.args # "valid"

\* _execute_tool_calls: one result per call, an exception turned into an error text
ToolResult(tool_call) ==
    [tool_use_id |-> tool_call.id,
     kind |-> IF tool_call.name \notin KnownTools THEN "unknown_tool"
              ELSE IF ToolRaises(tool_call) THEN "error"
              ELSE "result"]

\* _execute_tool_calls passing over the calls that name no tool it knows
_execute_tool_calls_known(tool_calls) ==
    LET Known(tool_call) == tool_call.name \in KnownTools
        known == SelectSeq(tool_calls, Known)
    IN [i \in 1..Len(known) |-> ToolResult(known[i])]

_execute_tool_calls(tool_calls) ==
    [i \in 1..Len(tool_calls) |-> ToolResult(tool_calls[i])]

TourPhrases == {"schedule a tour", "tour available", "would you like to see", "tour time"}
ClarificationPhrases ==
    {"could you tell me", "what are you looking for", "more information", "help me understand"}
HandoffPhrases == {"connect you with", "leasing specialist", "specialist", "complex"}

\* a classification that looks for the handoff markers before the others
_extract_action_handoff_first(response_text, t) ==
    LET text_lower == Lower(response_text) IN
    IF AnyIn(HandoffPhrases, text_lower)
    THEN [action |-> "handoff_human", proposed_time |-> Null]
    ELSE IF AnyIn(TourPhrases, text_lower)
    THEN [action |-> "propose_tour", proposed_time |-> PyTime(t + 2)]
    ELSE [action |-> "ask_clarification", proposed_time |-> Null]

\* _extract_action_and_time: the time is a datetime, two days and 14 hours from t
_extract_action_and_time(response_text, t) ==
    LET text_lower == Lower(response_text) IN
    IF AnyIn(TourPhrases, text_lower)
    THEN [action |-> "propose_tour", proposed_time |-> PyTime(t + 2)]
    ELSE IF AnyIn(ClarificationPhrases, text_lower)
    THEN [action |-> "ask_clarification", proposed_time |-> Null]
    ELSE IF AnyIn(HandoffPhrases, text_lower)
    THEN [action |-> "handoff_human", proposed_time |-> Null]
    ELSE [action |-> "ask_clarification", proposed_time |-> Null]

\* ChatResponse(reply, action, proposed_time)
ChatResponse(reply, action, proposed_time) ==
    [reply |-> reply, action |-> action, proposed_time |-> proposed_time]

\* pydantic validates proposed_time: Optional[str]; a datetime is no str
ChatResponseValid(proposed_time) == proposed_time.t \in {"null", "str"}

\* the reply of the except branch of ClaudeAgentService.process_message
ClaudeFallbackReply(lead_name) ==
    CASE lead_name = "Jane" -> "Hi Jane! I apologize, but I'm having technical difficulties right now."
      [] lead_name = "John" -> "Hi John! I apologize, but I'm having technical difficulties right now."
      [] OTHER -> "Hi! I apologize, but I'm having technical difficulties right now."

\* a fallback that asks instead of handing off
ClaudeFallbackAsks(lead_name) ==
    ChatResponse(ClaudeFallbackReply(lead_name), "ask_clarification", Null)

ClaudeFallback(lead_name) ==
    ChatResponse(ClaudeFallbackReply(lead_name), "handoff_human", Null)

\* the reply of the except branch of AgentService.process_message
AgentFallbackReply(lead_name) ==
    CASE lead_name = "Jane" -> "Hi Jane! I apologize, but I'm experiencing technical difficulties."
      [] lead_name = "John" -> "Hi John! I apologize, but I'm experiencing technical difficulties."
      [] OTHER -> "Hi! I apologize, but I'm experiencing technical difficulties."

\* the except branch of AgentService.process_message:
\* request.lead.name.split()[0] is an IndexError when the name has no word
AgentFallback(request) ==
    LET words == Split(request.lead.name) IN
    IF words = <<>> THEN [raised |-> TRUE, response |-> ChatResponse("", "", Null)]
    ELSE [raised |-> FALSE,
          response |-> ChatResponse(AgentFallbackReply(words[1]), "handoff_human", Null)]

----------------------------------------------------------------------------
(* The catalog (mcp_server/data): values read from the JSON files            *)

\* an attribute that was never assigned
Absent == [t |-> "absent", v |-> 0]

PyTuple(a, b) == [t |-> "tuple", v |-> <<a, b>>]

\* a number of hundredths standing for a float
PyFloat(n) == [t |-> "float", v |-> n]

\* a dict read from JSON keeps the order of its keys: a sequence of items
Keys(d) == [i \in DOMAIN d |-> d[i].key]
HasKey(d, k) == \E i \in DOMAIN d : d[i].key = k
Get(d, k) == d[CHOOSE i \in DOMAIN d : d[i].key = k].value

\* sep.join(strings)
RECURSIVE Join(_, _)
Join(strings, sep) ==
    IF strings = <<>> THEN ""
    ELSE IF Len(strings) = 1 THEN strings[1]
    ELSE strings[1] \o sep \o Join(Tail(strings), sep)

\* str.strip()
Strip(s) ==
    CASE s = " kitten " -> "kitten"
      [] OTHER -> s

\* a JSON number given where a string is expected, kept as its text
PyNumber(text) == [t |-> "number", v |-> text]

\* str(value) as an f-string writes it
Str(value) == value.v

\* datetime.strptime(date_string, "%Y-%m-%d"): Null stands for ValueError
strptime(date_string) ==
    CASE date_string = "2025-05-31" -> [year |-> 2025, month |-> 5, day |-> 31]
      [] date_string = "2025-06-01" -> [year |-> 2025, month |-> 6, day |-> 1]
      [] date_string = "2025-7-4" -> [year |-> 2025, month |-> 7, day |-> 4]
      [] date_string = "2025-08-31" -> [year |-> 2025, month |-> 8, day |-> 31]
      [] date_string = "2025-09-01" -> [year |-> 2025, month |-> 9, day |-> 1]
      [] date_string = "2025-12-25" -> [year |-> 2025, month |-> 12, day |-> 25]
      [] date_string = "2025-06-31" -> Null
      [] date_string = "07/15/2025" -> Null
      [] OTHER -> Null

\* the move-in dates a caller gives; the last is not a date
MoveInDates ==
    {"2025-05-31", "2025-06-01", "2025-7-4", "2025-08-31", "2025-09-01", "2025-12-25",
     "2025-06-31"}

\* the community ids a caller gives; the last is in no file
CommunityIds == {"sunset-ridge", "downtown-lofts", "nowhere"}

Unit(unit_id, bedrooms, available, base_rent, available_date) ==
    [unit_id |-> unit_id, bedrooms |-> bedrooms, available |-> available,
     base_rent |-> base_rent, available_date |-> available_date]

\* units.json
Units ==
    [c \in {"sunset-ridge", "downtown-lofts"} |->
        IF c = "sunset-ridge"
        THEN <<Unit("A101", 1, TRUE, 1800, "2025-07-01"),
               Unit("A102", 2, TRUE, 2400, "2025-07-15"),
               Unit("A103", 2, FALSE, 2500, "2025-10-01"),
               Unit("B201", 2, TRUE, 2600, "2025-08-01")>>
        ELSE <<Unit("A101", 2, TRUE, 3000, "2025-06-15"),
               Unit("L2", 3, FALSE, 3900, "2025-11-01")>>]

UnitIds == {"A101", "B201", "Z9"}
BedroomCounts == 1..3

\* communities.json
Communities ==
    [c \in {"sunset-ridge", "downtown-lofts"} |->
        [name |-> IF c = "sunset-ridge" THEN "Sunset Ridge" ELSE "Downtown Lofts"]]

Policy(allowed, fee, notes) == [allowed |-> allowed, fee |-> fee, notes |-> notes]

\* pet_policies.json
PetPolicies ==
    [c \in {"sunset-ridge", "downtown-lofts"} |->
        IF c = "sunset-ridge"
        THEN <<Pair("cat", Policy(TRUE, 50, "Max 2 cats")),
               Pair("dog", Policy(FALSE, 0, "Dogs not permitted"))>>
        ELSE <<Pair("cat", Policy(TRUE, 75, "Indoor cats only")),
               Pair("fish", Policy(TRUE, 0, "Tanks up to 20 gallons"))>>]

\* a pet_policies.json without communities
NoPetPolicies == [c \in {} |-> <<>>]

Special(name, discount_type, amount) ==
    [name |-> name, discount_type |-> discount_type, amount |-> amount]

SummerSpecial == Special("Summer Special", "percentage", 10)
FirstMonthFree == Special("First Month Free", "first_month_free", 0)
MoveInCredit == Special("Move-In Credit", "flat_discount", 500)

\* what the data provider can load: the four files
Snapshot(pet_policies, specials) ==
    [communities |-> Communities, units |-> Units,
     pet_policies |-> pet_policies, specials |-> specials]

Snapshots ==
    {Snapshot(PetPolicies, <<FirstMonthFree, SummerSpecial, MoveInCredit>>),
     Snapshot(PetPolicies, <<FirstMonthFree>>),
     Snapshot(NoPetPolicies, <<SummerSpecial>>)}

\* the pet types a caller gives: keys, other words, and a JSON number
PetTypes == {PyStr("cat"), PyStr("fish"), PyStr(" Kitten "), PyNumber("3")}

----------------------------------------------------------------------------
(* PetPolicyVectorSearch (mcp_server/data/vector_search.py)                  *)

\* VECTOR_SEARCH_AVAILABLE is false ("unavailable"), SentenceTransformer(...)
\* raises ("load_fails"), or the model is loaded ("ok")
Backends == {"unavailable", "load_fails", "ok"}

\* cosine similarities the index search can give, in hundredths
Scores == {30, 75}

\* thresholds a caller can set, in hundredths
Thresholds == {40, 80, 150}

DefaultThreshold == 60

IndexFlatIP(pet_types) == [t |-> "IndexFlatIP", v |-> pet_types]

\* __init__
PetPolicyVectorSearch(confidence_threshold, backend) ==
    IF backend = "unavailable"
    THEN [enabled |-> FALSE, confidence_threshold |-> Absent, model |-> Absent,
          index |-> Absent, pet_types |-> Absent, cache |-> Absent]
    ELSE [enabled |-> backend = "ok",
          confidence_threshold |-> PyFloat(confidence_threshold),
          model |-> IF backend = "ok" THEN PyStr("all-MiniLM-L6-v2") ELSE Null,
          index |-> Null, pet_types |-> PyList(<<>>), cache |-> PyDict(EmptyDict)]

\* what the backend does during build_index: nothing wrong ("no"), encode
\* raises ("encode"), or normalize_L2/add raises after the new index was
\* assigned ("add")
BuildFailures == {"no", "encode", "add"}

build_index(self, pet_types, fails) ==
    IF ~self.enabled \/ pet_types = <<>> THEN [self |-> self, ret |-> FALSE]
    ELSE IF fails = "encode" THEN [self |-> [self EXCEPT !.enabled = FALSE], ret |-> FALSE]
    ELSE IF fails = "add"
    THEN [self |-> [self EXCEPT !.index = IndexFlatIP(<<>>), !.enabled = FALSE],
          ret |-> FALSE]
    ELSE [self |-> [self EXCEPT !.index = IndexFlatIP(pet_types),
                                !.pet_types = PyList(pet_types)],
          ret |-> TRUE]

\* what encode and index.search give for a query: they raise, or the best
\* row of the index and its score
SearchFails == [fails |-> TRUE, score |-> 0, idx |-> 0]
SearchFinds(score, idx) == [fails |-> FALSE, score |-> score, idx |-> idx]

MaxIndexed == 3

Searches == {SearchFails} \cup {SearchFinds(s, i) : s \in Scores, i \in 1..MaxIndexed}

NoMatch == PyTuple(Null, PyFloat(0))

\* find_best_match with the query itself as the cache key
find_best_match_raw_key(self, query, search) ==
    IF ~self.enabled \/ self.index = Null
    THEN [self |-> self, raised |-> FALSE, ret |-> NoMatch, computed |-> FALSE]
    ELSE IF query.t # "str"
    THEN [self |-> self, raised |-> TRUE, ret |-> Null, computed |-> FALSE]
    ELSE LET cache_key == query.v IN
         IF cache_key \in DOMAIN self.cache.v
         THEN [self |-> self, raised |-> FALSE, ret |-> self.cache.v[cache_key],
               computed |-> FALSE]
         ELSE IF search.fails
         THEN [self |-> self, raised |-> FALSE, ret |-> NoMatch, computed |-> TRUE]
         ELSE LET result ==
                      IF search.score >= self.confidence_threshold.v
                      THEN PyTuple(PyStr(self.pet_types.v[search.idx]), PyFloat(search.score))
                      ELSE PyTuple(Null, PyFloat(search.score))
                  cache == [k \in DOMAIN self.cache.v \cup {cache_key} |->
                               IF k = cache_key THEN result ELSE self.cache.v[k]]
              IN [self |-> [self EXCEPT !.cache = PyDict(cache)], raised |-> FALSE,
                  ret |-> result, computed |-> TRUE]

\* find_best_match without the answer for a matcher that cannot search
find_best_match_unguarded(self, query, search) ==
    IF ~self.enabled \/ self.index = Null
    THEN [self |-> self, raised |-> TRUE, ret |-> Null, computed |-> FALSE]
    ELSE IF query.t # "str"
    THEN [self |-> self, raised |-> TRUE, ret |-> Null, computed |-> FALSE]
    ELSE LET cache_key == Strip(Lower(query.v)) IN
         IF cache_key \in DOMAIN self.cache.v
         THEN [self |-> self, raised |-> FALSE, ret |-> self.cache.v[cache_key],
               computed |-> FALSE]
         ELSE IF search.fails
         THEN [self |-> self, raised |-> FALSE, ret |-> NoMatch, computed |-> TRUE]
         ELSE LET result ==
                      IF search.score >= self.confidence_threshold.v
                      THEN PyTuple(PyStr(self.pet_types.v[search.idx]), PyFloat(search.score))
                      ELSE PyTuple(Null, PyFloat(search.score))
                  cache == [k \in DOMAIN self.cache.v \cup {cache_key} |->
                               IF k = cache_key THEN result ELSE self.cache.v[k]]
              IN [self |-> [self EXCEPT !.cache = PyDict(cache)], raised |-> FALSE,
                  ret |-> result, computed |-> TRUE]

find_best_match(self, query, search) ==
    IF ~self.enabled \/ self.index = Null
    THEN [self |-> self, raised |-> FALSE, ret |-> NoMatch, computed |-> FALSE]
    ELSE IF query.t # "str"
    THEN [self |-> self, raised |-> TRUE, ret |-> Null, computed |-> FALSE]
    ELSE LET cache_key == Strip(Lower(query.v)) IN
         IF cache_key \in DOMAIN self.cache.v
         THEN [self |-> self, raised |-> FALSE, ret |-> self.cache.v[cache_key],
               computed |-> FALSE]
         ELSE IF search.fails
         THEN [self |-> self, raised |-> FALSE, ret |-> NoMatch, computed |-> TRUE]
         ELSE LET result ==
                      IF search.score >= self.confidence_threshold.v
                      THEN PyTuple(PyStr(self.pet_types.v[search.idx]), PyFloat(search.score))
                      ELSE PyTuple(Null, PyFloat(search.score))
                  cache == [k \in DOMAIN self.cache.v \cup {cache_key} |->
                               IF k = cache_key THEN result ELSE self.cache.v[k]]
              IN [self |-> [self EXCEPT !.cache = PyDict(cache)], raised |-> FALSE,
                  ret |-> result, computed |-> TRUE]

Min(a, b) == IF a < b THEN a ELSE b
Max(a, b) == IF a > b THEN a ELSE b

set_confidence_threshold(self, threshold) ==
    [self EXCEPT !.confidence_threshold = PyFloat(Max(0, Min(100, threshold)))]

\* raised: self.cache was never assigned
clear_cache(self) ==
    IF self.cache = Absent THEN [self |-> self, raised |-> TRUE]
    ELSE [self |-> [self EXCEPT !.cache = PyDict(EmptyDict)], raised |-> FALSE]

----------------------------------------------------------------------------
(* InventoryService (mcp_server/data/inventory.py)                           *)

\* the keys of all communities' policies
all_pet_types(pet_policies) == UNION {Range(Keys(pet_policies[c])) : c \in DOMAIN pet_policies}

\* list(all_pet_types): orders a set of strings can be listed in
PetTypeLists == {<<>>, <<"cat", "dog", "fish">>, <<"fish", "cat", "dog">>}

_init_vector_search(pet_policies, backend, pet_type_list, fails) ==
    LET search == PetPolicyVectorSearch(DefaultThreshold, backend) IN
    IF ~search.enabled THEN search
    ELSE IF all_pet_types(pet_policies) = {} THEN search
    ELSE build_index(search, pet_type_list, fails).self

\* the files of the data provider after they were edited
ReloadedCommunities ==
    [c \in {"sunset-ridge", "harbor-view"} |->
        [name |-> IF c = "sunset-ridge" THEN "Sunset Ridge" ELSE "Harbor View"]]

ReloadedUnits ==
    [c \in {"sunset-ridge", "harbor-view"} |->
        IF c = "sunset-ridge"
        THEN <<Unit("A101", 1, TRUE, 1900, "2025-07-01"),
               Unit("A102", 2, FALSE, 2400, "2025-07-15")>>
        ELSE <<Unit("H1", 2, TRUE, 2200, "2025-09-01")>>]

ReloadedPetPolicies ==
    [c \in {"sunset-ridge", "harbor-view"} |->
        IF c = "sunset-ridge"
        THEN <<Pair("cat", Policy(TRUE, 60, "Max 1 cat")),
               Pair("fish", Policy(TRUE, 0, "Tanks up to 10 gallons"))>>
        ELSE <<Pair("dog", Policy(TRUE, 100, "Dogs under 40 lbs"))>>]

Reloaded ==
    [communities |-> ReloadedCommunities, units |-> ReloadedUnits,
     pet_policies |-> ReloadedPetPolicies,
     specials |-> <<Special("Summer Special", "percentage", 20)>>]

\* what the provider's four loads can give at a reload
Providers == {Reloaded, Snapshot(PetPolicies, <<FirstMonthFree, SummerSpecial, MoveInCredit>>)}

\* the attributes _load_data assigns, in the order it assigns them
Attributes == <<"communities", "units", "pet_policies", "specials">>

\* self.<attribute> = self.data_provider.load_<attribute>(), the k-th of them
load(self, data_provider, k) ==
    [self EXCEPT ![Attributes[k]] = data_provider[Attributes[k]]]

\* the service after the first n assignments of _load_data
RECURSIVE Assigned(_, _, _)
Assigned(self, data_provider, n) ==
    IF n = 0 THEN self ELSE load(Assigned(self, data_provider, n - 1), data_provider, n)

\* the provider's loads that can raise: none (0) or the k-th
LoadFailures == 0..4

\* _load_data: the four loads one after another, then _init_vector_search;
\* a load that raises ends the call with the earlier assignments made
_load_data(self, search_object, data_provider, fails_at, backend, pet_type_list, fails) ==
    IF fails_at # 0
    THEN [raised |-> TRUE, self |-> Assigned(self, data_provider, fails_at - 1),
          pet_vector_search |-> search_object]
    ELSE [raised |-> FALSE, self |-> Assigned(self, data_provider, 4),
          pet_vector_search |->
              _init_vector_search(data_provider.pet_policies, backend, pet_type_list, fails)]

reload_data(self, search_object, data_provider, fails_at, backend, pet_type_list, fails) ==
    _load_data(self, search_object, data_provider, fails_at, backend, pet_type_list, fails)

\* a reload_data call: where it is, the catalog and the matcher it found, and
\* what the provider holds
LoadCall(at, step, before, matcher, target) ==
    [pc |-> at, step |-> step, before |-> before, matcher |-> matcher, target |-> target]

NoLoad ==
    LoadCall("idle", 0, Snapshot(NoPetPolicies, <<>>),
         PetPolicyVectorSearch(DefaultThreshold, "unavailable"), Snapshot(NoPetPolicies, <<>>))

\* get_available_units without the test of unit["available"]
get_available_units_any(self, community_id, bedrooms) ==
    IF community_id \notin DOMAIN self.units THEN PyList(<<>>)
    ELSE LET Wanted(unit) == unit.bedrooms = bedrooms
         IN PyList(SelectSeq(self.units[community_id], Wanted))

get_available_units(self, community_id, bedrooms) ==
    IF community_id \notin DOMAIN self.units THEN PyList(<<>>)
    ELSE LET Wanted(unit) == unit.available /\ unit.bedrooms = bedrooms
         IN PyList(SelectSeq(self.units[community_id], Wanted))

NotFoundPolicy(policies, pet_type) ==
    [allowed |-> FALSE,
     notes |-> "Policy for '" \o Str(pet_type) \o "' not found. Available policies: "
               \o Join(Keys(policies), ", "),
     available_types |-> Keys(policies)]

\* get_pet_policy without the try around the matcher call
get_pet_policy_uncaught(self, search_object, community_id, pet_type, search) ==
    LET Answer(ret, object, calls, computed) ==
            [raised |-> FALSE, ret |-> PyDict(ret), search_object |-> object,
             matcher_calls |-> calls, computed |-> computed, self |-> self]
    IN
    IF community_id \notin DOMAIN self.pet_policies
    THEN Answer([allowed |-> FALSE, notes |-> "Community not found"], search_object, 0, FALSE)
    ELSE LET policies == self.pet_policies[community_id] IN
         IF pet_type.t = "str" /\ HasKey(policies, pet_type.v)
         THEN Answer(Get(policies, pet_type.v), search_object, 0, FALSE)
         ELSE IF ~search_object.enabled
         THEN Answer(NotFoundPolicy(policies, pet_type), search_object, 0, FALSE)
         ELSE LET r == find_best_match(search_object, pet_type, search) IN
              IF r.raised
              THEN [raised |-> TRUE, ret |-> Null, search_object |-> r.self,
                    matcher_calls |-> 1, computed |-> r.computed, self |-> self]
              ELSE LET matched_type == r.ret.v[1]
                       confidence == r.ret.v[2]
                   IN IF matched_type # Null /\ matched_type.v # ""
                         /\ HasKey(policies, matched_type.v)
                      THEN LET policy == Get(policies, matched_type.v) IN
                           Answer([allowed |-> policy.allowed, fee |-> policy.fee,
                                   notes |-> policy.notes,
                                   matched_type |-> matched_type.v,
                                   confidence |-> confidence.v,
                                   original_query |-> pet_type.v],
                                  r.self, 1, r.computed)
                      ELSE Answer(NotFoundPolicy(policies, pet_type), r.self, 1, r.computed)

\* get_pet_policy asking the matcher before the exact lookup
get_pet_policy_fuzzy_first(self, search_object, community_id, pet_type, search) ==
    LET Answer(ret, object, calls, computed) ==
            [raised |-> FALSE, ret |-> PyDict(ret), search_object |-> object,
             matcher_calls |-> calls, computed |-> computed, self |-> self]
    IN
    IF community_id \notin DOMAIN self.pet_policies
    THEN Answer([allowed |-> FALSE, notes |-> "Community not found"], search_object, 0, FALSE)
    ELSE LET policies == self.pet_policies[community_id] IN
         IF pet_type.t = "str" /\ HasKey(policies, pet_type.v) /\ ~search_object.enabled
         THEN Answer(Get(policies, pet_type.v), search_object, 0, FALSE)
         ELSE IF ~search_object.enabled
         THEN Answer(NotFoundPolicy(policies, pet_type), search_object, 0, FALSE)
         ELSE LET r == find_best_match(search_object, pet_type, search) IN
              IF r.raised
              THEN Answer(NotFoundPolicy(policies, pet_type), r.self, 1, r.computed)
              ELSE LET matched_type == r.ret.v[1]
                       confidence == r.ret.v[2]
                   IN IF matched_type # Null /\ matched_type.v # ""
                         /\ HasKey(policies, matched_type.v)
                      THEN LET policy == Get(policies, matched_type.v) IN
                           Answer([allowed |-> policy.allowed, fee |-> policy.fee,
                                   notes |-> policy.notes,
                                   matched_type |-> matched_type.v,
                                   confidence |-> confidence.v,
                                   original_query |-> pet_type.v],
                                  r.self, 1, r.computed)
                      ELSE Answer(NotFoundPolicy(policies, pet_type), r.self, 1, r.computed)

\* d[k] = value for a key the dict already has
Put(d, k, value) == [i \in DOMAIN d |-> IF d[i].key = k THEN Pair(k, value) ELSE d[i]]

\* get_pet_policy adding the match metadata to the catalog's own policy entry
get_pet_policy_in_place(self, search_object, community_id, pet_type, search) ==
    LET Answer(ret, object, calls, computed) ==
            [raised |-> FALSE, ret |-> PyDict(ret), search_object |-> object,
             matcher_calls |-> calls, computed |-> computed, self |-> self]
    IN
    IF community_id \notin DOMAIN self.pet_policies
    THEN Answer([allowed |-> FALSE, notes |-> "Community not found"], search_object, 0, FALSE)
    ELSE LET policies == self.pet_policies[community_id] IN
         IF pet_type.t = "str" /\ HasKey(policies, pet_type.v)
         THEN Answer(Get(policies, pet_type.v), search_object, 0, FALSE)
         ELSE IF ~search_object.enabled
         THEN Answer(NotFoundPolicy(policies, pet_type), search_object, 0, FALSE)
         ELSE LET r == find_best_match(search_object, pet_type, search) IN
              IF r.raised
              THEN Answer(NotFoundPolicy(policies, pet_type), r.self, 1, r.computed)
              ELSE LET matched_type == r.ret.v[1]
                       confidence == r.ret.v[2]
                   IN IF matched_type # Null /\ matched_type.v # ""
                         /\ HasKey(policies, matched_type.v)
                      THEN LET policy == Get(policies, matched_type.v)
                               answer == [allowed |-> policy.allowed, fee |-> policy.fee,
                                          notes |-> policy.notes,
                                          matched_type |-> matched_type.v,
                                          confidence |-> confidence.v,
                                          original_query |-> pet_type.v]
                           IN [Answer(answer, r.self, 1, r.computed) EXCEPT
                                  !.self = [self EXCEPT !.pet_policies[community_id] =
                                               Put(policies, matched_type.v, answer)]]
                      ELSE Answer(NotFoundPolicy(policies, pet_type), r.self, 1, r.computed)

\* gives the answer, the matcher as the call leaves it, the number of
\* find_best_match calls made and whether the matcher computed a similarity
get_pet_policy(self, search_object, community_id, pet_type, search) ==
    LET Answer(ret, object, calls, computed) ==
            [raised |-> FALSE, ret |-> PyDict(ret), search_object |-> object,
             matcher_calls |-> calls, computed |-> computed, self |-> self]
    IN
    IF community_id \notin DOMAIN self.pet_policies
    THEN Answer([allowed |-> FALSE, notes |-> "Community not found"], search_object, 0, FALSE)
    ELSE LET policies == self.pet_policies[community_id] IN
         IF pet_type.t = "str" /\ HasKey(policies, pet_type.v)
         THEN Answer(Get(policies, pet_type.v), search_object, 0, FALSE)
         ELSE IF ~search_object.enabled
         THEN Answer(NotFoundPolicy(policies, pet_type), search_object, 0, FALSE)
         ELSE LET r == find_best_match(search_object, pet_type, search) IN
              IF r.raised
              THEN Answer(NotFoundPolicy(policies, pet_type), r.self, 1, r.computed)
              ELSE LET matched_type == r.ret.v[1]
                       confidence == r.ret.v[2]
                   IN IF matched_type # Null /\ matched_type.v # ""
                         /\ HasKey(policies, matched_type.v)
                      THEN LET policy == Get(policies, matched_type.v) IN
                           Answer([allowed |-> policy.allowed, fee |-> policy.fee,
                                   notes |-> policy.notes,
                                   matched_type |-> matched_type.v,
                                   confidence |-> confidence.v,
                                   original_query |-> pet_type.v],
                                  r.self, 1, r.computed)
                      ELSE Answer(NotFoundPolicy(policies, pet_type), r.self, 1, r.computed)

\* the first element of a sequence that satisfies Test, Null when none does
First(seq, Test(_)) ==
    IF \E i \in DOMAIN seq : Test(seq[i])
    THEN seq[CHOOSE i \in DOMAIN seq : Test(seq[i]) /\ \A j \in 1..(i - 1) : ~Test(seq[j])]
    ELSE Null

\* the summer months with July only
SummerMoveInJuly(move_in) == move_in.month = 7

\* 6 <= move_in.month <= 8
SummerMoveIn(move_in) == 6 <= move_in.month /\ move_in.month <= 8

\* draw: random.random() < 0.3;  choice: the index random.choice picks
\* get_pricing applying every other special on a lucky draw, not one of them
get_pricing_every_special(self, community_id, unit_id, move_in_date, draw, choice) ==
    IF community_id \notin DOMAIN self.units THEN [raised |-> FALSE, ret |-> Null]
    ELSE
    LET IsUnit(u) == u.unit_id = unit_id
        unit == First(self.units[community_id], IsUnit)
    IN
    IF unit = Null THEN [raised |-> FALSE, ret |-> Null]
    ELSE
    LET base_rent == unit.base_rent
        move_in == strptime(move_in_date)
        IsSummer(s) == s.name = "Summer Special"
        IsOther(s) == s.name # "Summer Special"
        summer_special == First(self.specials, IsSummer)
        summer == IF SummerMoveIn(move_in) /\ summer_special # Null
                  THEN <<[name |-> summer_special.name,
                          discount |-> (base_rent * summer_special.amount) \div 100,
                          type |-> "monthly_discount"]>>
                  ELSE <<>>
        effective_rent == IF summer = <<>> THEN base_rent ELSE base_rent - summer[1].discount
        other_specials == SelectSeq(self.specials, IsOther)
        other == IF draw
                 THEN [i \in 1..Len(other_specials) |->
                          IF other_specials[i].discount_type = "first_month_free"
                          THEN [name |-> other_specials[i].name, discount |-> base_rent,
                                type |-> "first_month_free"]
                          ELSE [name |-> other_specials[i].name,
                                discount |-> other_specials[i].amount,
                                type |-> "move_in_credit"]]
                 ELSE <<>>
    IN
    IF move_in = Null THEN [raised |-> TRUE, ret |-> Null]
    ELSE [raised |-> FALSE,
          ret |-> PyDict([community_id |-> community_id,
                          unit_id |-> unit_id,
                          unit_details |-> unit,
                          move_in_date |-> move_in_date,
                          pricing |-> [base_rent |-> base_rent,
                                       effective_rent |-> effective_rent,
                                       security_deposit |-> base_rent,
                                       application_fee |-> 75,
                                       admin_fee |-> 150],
                          specials |-> summer \o other,
                          lease_terms |-> <<6, 12, 15>>,
                          available_date |-> unit.available_date])]

get_pricing(self, community_id, unit_id, move_in_date, draw, choice) ==
    IF community_id \notin DOMAIN self.units THEN [raised |-> FALSE, ret |-> Null]
    ELSE
    LET IsUnit(u) == u.unit_id = unit_id
        unit == First(self.units[community_id], IsUnit)
    IN
    IF unit = Null THEN [raised |-> FALSE, ret |-> Null]
    ELSE
    LET base_rent == unit.base_rent
        move_in == strptime(move_in_date)
        IsSummer(s) == s.name = "Summer Special"
        IsOther(s) == s.name # "Summer Special"
        summer_special == First(self.specials, IsSummer)
        summer == IF SummerMoveIn(move_in) /\ summer_special # Null
                  THEN <<[name |-> summer_special.name,
                          discount |-> (base_rent * summer_special.amount) \div 100,
                          type |-> "monthly_discount"]>>
                  ELSE <<>>
        effective_rent == IF summer = <<>> THEN base_rent ELSE base_rent - summer[1].discount
        other_specials == SelectSeq(self.specials, IsOther)
        special == other_specials[choice]
        other == IF draw /\ other_specials # <<>>
                 THEN IF special.discount_type = "first_month_free"
                      THEN <<[name |-> special.name, discount |-> base_rent,
                              type |-> "first_month_free"]>>
                      ELSE IF special.discount_type = "flat_discount"
                      THEN <<[name |-> special.name, discount |-> special.amount,
                              type |-> "move_in_credit"]>>
                      ELSE <<>>
                 ELSE <<>>
    IN
    IF move_in = Null THEN [raised |-> TRUE, ret |-> Null]
    ELSE [raised |-> FALSE,
          ret |-> PyDict([community_id |-> community_id,
                          unit_id |-> unit_id,
                          unit_details |-> unit,
                          move_in_date |-> move_in_date,
                          pricing |-> [base_rent |-> base_rent,
                                       effective_rent |-> effective_rent,
                                       security_deposit |-> base_rent,
                                       application_fee |-> 75,
                                       admin_fee |-> 150],
                          specials |-> summer \o other,
                          lease_terms |-> <<6, 12, 15>>,
                          available_date |-> unit.available_date])]

\* the tool handing on whatever the inventory gave
tools_get_pricing_as_is(self, community_id, unit_id, move_in_date, draw, choice) ==
    get_pricing(self, community_id, unit_id, move_in_date, draw, choice)

\* get_pricing of mcp_server/tools/tools.py
tools_get_pricing(self, community_id, unit_id, move_in_date, draw, choice) ==
    LET pricing == get_pricing(self, community_id, unit_id, move_in_date, draw, choice) IN
    IF pricing.raised THEN pricing
    ELSE IF pricing.ret = Null
    THEN [raised |-> FALSE,
          ret |-> PyDict([error |-> "Unit " \o unit_id \o " not found in " \o community_id,
                          available |-> FALSE])]
    ELSE pricing

\* the last call: what was called with what, and what it gave
Lookup(op, community_id, arg, raised, ret, matcher_calls, computed, before) ==
    [op |-> op, community_id |-> community_id, arg |-> arg, raised |-> raised,
     ret |-> ret, matcher_calls |-> matcher_calls, computed |-> computed,
     before |-> before]

NoLookup ==
    Lookup("none", "", Null, FALSE, Null, 0, FALSE, PetPolicyVectorSearch(DefaultThreshold, "unavailable"))

\* the catalog of a specification that does not use it
CatalogIdle ==
    /\ inventory = Snapshot(NoPetPolicies, <<>>)
    /\ pet_vector_search = PetPolicyVectorSearch(DefaultThreshold, "unavailable")
    /\ lookup = NoLookup
    /\ loading = NoLoad

----------------------------------------------------------------------------
(* AgentService (backend/app/services/agent.py): state *)

NoRequest == ChatRequest("", "", "", Null, "")
NoResponse == ChatResponse("", "", Null)

NoClassification == [action |-> "", proposed_time |-> Null]

\* the locals of a turn; kept after the turn for the properties to read
NoTurn ==
    [request |-> NoRequest,
     status |-> "none",                 \* none, running, returned, raised
     before |-> [existed |-> FALSE, messages |-> <<>>, preferences |-> ClientPreferences(0)],
     extracted |-> Null,                \* what extract_preferences returned
     lead_name |-> "",
     history |-> <<>>,                  \* the prior turns given to the model
     learned |-> ClientPreferences(0),  \* the learned preferences given to the model
     calls |-> 0,                       \* language-model calls made
     tool_rounds |-> 0,                 \* calls of _execute_tool_calls
     tool_calls |-> <<>>,
     tool_results |-> <<>>,
     llm_raised |-> FALSE,              \* a language-model call raised
     tool_raised |-> FALSE,             \* a tool raised
     second_text |-> "",                \* the text of the second model response
     response_text |-> "",
     classified |-> NoClassification,   \* what _extract_action_and_time returned
     response |-> NoResponse]

NoOperation ==
    [op |-> "none", client_id |-> "", outcome |-> "none", error |-> "",
     response |-> NoResponse, ret |-> Null]

Returned(op, client_id, response, ret) ==
    [op |-> op, client_id |-> client_id, outcome |-> "returned", error |-> "",
     response |-> response, ret |-> ret]

Raised(op, client_id, error) ==
    [op |-> op, client_id |-> client_id, outcome |-> "raised", error |-> error,
     response |-> NoResponse, ret |-> Null]

\* the handler tasks of the event loop
TaskIds == 1..MaxTasks
NoTask == 0

\* a task: pc is the await it stands at; user_index and reply_index are the
\* places of its two transcript entries; merged tells its merge was stored
AbsentTask ==
    [pc |-> "absent", request |-> NoRequest, concurrent |-> FALSE, extracted |-> Null,
     user_index |-> 0, reply_index |-> 0, merged |-> FALSE,
     response |-> NoResponse, outcome |-> "none"]

NoTasks == [t \in TaskIds |-> AbsentTask]

\* what the service makes of the extractor in turns
TurnExtractions ==
    { Obj(<<>>),
      Obj(<<Pair("bedrooms", PyInt(2)), Pair("max_rent", PyInt(2000))>>),
      Obj(<<Pair("has_pets", PyBool(TRUE)), Pair("pet_types", PyList(<<"cat">>))>>),
      Obj(<<Pair("max_rent", PyInt(1500)), Pair("pet_types", BadList)>>),
      NonDict }

Init ==
    /\ apiKey \in BOOLEAN
    /\ initialized = FALSE
    /\ memory = [c \in {} |-> ClientMemory(TRUE, 0)]
    /\ pc = "idle"
    /\ turn = NoTurn
    /\ last = NoOperation
    /\ now = 0
    /\ turns = 0
    /\ CatalogIdle
    /\ prefs = ClientPreferences(0)
    /\ prevPrefs = ClientPreferences(0)
    /\ extracted = Null
    /\ source = ""
    /\ mergeRaised = FALSE
    /\ merges = 0
    /\ tasks = NoTasks
    /\ running = NoTask

\* _get_or_create_client_memory
_get_or_create_client_memory(mem, client_id, t) ==
    IF client_id \in DOMAIN mem THEN mem
    ELSE [c \in DOMAIN mem \cup {client_id} |->
            IF c = client_id THEN ClientMemory(TRUE, t) ELSE mem[c]]

----------------------------------------------------------------------------
(* A turn: AgentService.process_message, step by step.  No step of it      *)
(* awaits anything that suspends (the model client is synchronous), so a   *)
(* turn runs to its end before the event loop runs anything else.          *)

\* a process_message whose initialization failure is answered with the fallback
ProcessMessageFallsBack(request) ==
    /\ pc = "idle"
    /\ turns < MaxTurns
    /\ ~initialized /\ ~apiKey
    /\ last' = Returned("process_message", request.client_id,
                        AgentFallback(request).response, Null)
    /\ UNCHANGED <<apiKey, initialized, memory, pc, turn, now, turns, mergeVars, loopVars, catalogVars>>

\* process_message up to update_context (agent.py 99-112)
ProcessMessage(request) ==
    /\ pc = "idle"
    /\ turns < MaxTurns
    /\ IF ~initialized /\ ~apiKey
       THEN \* _initialize_if_needed raises, outside the try
            /\ last' = Raised("process_message", request.client_id, "ValueError")
            /\ UNCHANGED <<initialized, memory, pc, turn, now, turns, catalogVars>>
       ELSE LET created == _get_or_create_client_memory(memory, request.client_id, now + 1)
                c == request.client_id
            IN  /\ initialized' = TRUE
                /\ memory' = [created EXCEPT ![c] =
                                update_context(@, request.lead, request.preferences,
                                               request.community_id)]
                /\ turn' = [NoTurn EXCEPT
                                !.request = request,
                                !.status = "running",
                                !.before = [existed |-> c \in DOMAIN memory,
                                            messages |-> created[c].messages,
                                            preferences |-> created[c].preferences]]
                /\ pc' = "add_user"
                /\ now' = now + 1
                /\ turns' = turns + 1
                /\ last' = NoOperation
    /\ UNCHANGED <<apiKey, mergeVars, loopVars, catalogVars>>

\* a turn that goes on to the model without recording the user's message
AddUserMessageLate(e, ord) ==
    /\ pc = "add_user"
    /\ turn' = [turn EXCEPT !.extracted = e]
    /\ now' = now + 1
    /\ pc' = "claude"
    /\ UNCHANGED <<apiKey, initialized, memory, last, turns, mergeVars, loopVars, catalogVars>>

\* await client_memory.add_message("user", request.message) (agent.py 115)
AddUserMessage(e, ord) ==
    /\ pc = "add_user"
    /\ LET c == turn.request.client_id IN
        memory' = [memory EXCEPT ![c] =
                      add_message(@, "user", turn.request.message, e, ord, now + 1)]
    /\ turn' = [turn EXCEPT !.extracted = e]
    /\ now' = now + 1
    /\ pc' = "claude"
    /\ UNCHANGED <<apiKey, initialized, last, turns, mergeVars, loopVars, catalogVars>>

\* ClaudeAgentService.process_message up to the first model call
\* (claude_agent.py 257-279).  When the name has no word, split()[0] raises,
\* the except branch reads lead_name, which was never bound, and raises in turn;
\* AgentService's except branch then runs.
ClaudeStart ==
    /\ pc = "claude"
    /\ LET c == turn.request.client_id
           words == Split(turn.request.lead.name)
       IN IF words = <<>>
          THEN LET fb == AgentFallback(turn.request) IN
               /\ pc' = "idle"
               /\ turn' = [turn EXCEPT !.status = IF fb.raised THEN "raised" ELSE "returned",
                                       !.response = fb.response]
               /\ last' = IF fb.raised
                          THEN Raised("process_message", c, "IndexError")
                          ELSE Returned("process_message", c, fb.response, Null)
          ELSE /\ pc' = "first_call"
               /\ turn' = [turn EXCEPT
                              !.lead_name = words[1],
                              !.history = SubSeq(memory[c].messages, 1,
                                                 Len(memory[c].messages) - 1),
                              !.learned = memory[c].preferences]
               /\ last' = last
    /\ UNCHANGED <<apiKey, initialized, memory, now, turns, mergeVars, loopVars, catalogVars>>

\* the first self.client.messages.create (claude_agent.py 282-296, 330-335)
FirstModelCall(raises, response) ==
    /\ pc = "first_call"
    /\ IF raises
       THEN /\ turn' = [turn EXCEPT !.calls = @ + 1, !.llm_raised = TRUE,
                                    !.response = ClaudeFallback(turn.lead_name)]
            /\ pc' = "add_assistant"
       ELSE IF response.tool_calls # <<>>
       THEN /\ turn' = [turn EXCEPT !.calls = @ + 1, !.tool_calls = response.tool_calls]
            /\ pc' = "tools"
       ELSE /\ turn' = [turn EXCEPT !.calls = @ + 1, !.response_text = response.text]
            /\ pc' = "classify"
    /\ UNCHANGED <<apiKey, initialized, memory, last, now, turns, mergeVars, loopVars, catalogVars>>

\* a tool round whose exceptions reach the except branch of process_message
ExecuteToolsPropagates ==
    /\ pc = "tools"
    /\ LET failed == \E i \in DOMAIN turn.tool_calls : ToolRaises(turn.tool_calls[i]) IN
        /\ turn' = [turn EXCEPT
                        !.tool_rounds = @ + 1,
                        !.tool_results = IF failed THEN <<>>
                                         ELSE _execute_tool_calls(turn.tool_calls),
                        !.tool_raised = failed,
                        !.response = IF failed THEN ClaudeFallback(turn.lead_name) ELSE @]
        /\ pc' = IF failed THEN "add_assistant" ELSE "second_call"
    /\ UNCHANGED <<apiKey, initialized, memory, last, now, turns, mergeVars, loopVars, catalogVars>>

\* tool_results = await self._execute_tool_calls(tool_calls) (claude_agent.py 296)
ExecuteTools ==
    /\ pc = "tools"
    /\ turn' = [turn EXCEPT
                    !.tool_rounds = @ + 1,
                    !.tool_results = _execute_tool_calls(turn.tool_calls),
                    !.tool_raised = \E i \in DOMAIN turn.tool_calls :
                                        ToolRaises(turn.tool_calls[i])]
    /\ pc' = "second_call"
    /\ UNCHANGED <<apiKey, initialized, memory, last, now, turns, mergeVars, loopVars, catalogVars>>

\* a second call whose tool requests start another tool round
SecondModelCallLoops(raises, response) ==
    /\ pc = "second_call"
    /\ IF raises
       THEN /\ turn' = [turn EXCEPT !.calls = @ + 1, !.llm_raised = TRUE,
                                    !.response = ClaudeFallback(turn.lead_name)]
            /\ pc' = "add_assistant"
       ELSE IF response.tool_calls # <<>> /\ turn.tool_rounds < 2
       THEN /\ turn' = [turn EXCEPT !.calls = @ + 1, !.tool_calls = response.tool_calls]
            /\ pc' = "tools"
       ELSE /\ turn' = [turn EXCEPT !.calls = @ + 1, !.second_text = response.text,
                                    !.response_text = response.text]
            /\ pc' = "classify"
    /\ UNCHANGED <<apiKey, initialized, memory, last, now, turns, mergeVars, loopVars, catalogVars>>

\* the second self.client.messages.create (claude_agent.py 318-329);
\* the tool_use blocks of its response are not looked at
SecondModelCall(raises, response) ==
    /\ pc = "second_call"
    /\ IF raises
       THEN /\ turn' = [turn EXCEPT !.calls = @ + 1, !.llm_raised = TRUE,
                                    !.response = ClaudeFallback(turn.lead_name)]
            /\ pc' = "add_assistant"
       ELSE /\ turn' = [turn EXCEPT !.calls = @ + 1, !.second_text = response.text,
                                    !.response_text = response.text]
            /\ pc' = "classify"
    /\ UNCHANGED <<apiKey, initialized, memory, last, now, turns, mergeVars, loopVars, catalogVars>>

\* _extract_action_and_time and ChatResponse(...) (claude_agent.py 338-353):
\* a response that does not validate is a ValidationError inside the try
Classify ==
    /\ pc = "classify"
    /\ LET a == _extract_action_and_time(turn.response_text, now) IN
        turn' = [turn EXCEPT
                    !.classified = a,
                    !.response =
                        IF ChatResponseValid(a.proposed_time)
                        THEN ChatResponse(turn.response_text, a.action, a.proposed_time)
                        ELSE ClaudeFallback(turn.lead_name)]
    /\ pc' = "add_assistant"
    /\ UNCHANGED <<apiKey, initialized, memory, last, now, turns, mergeVars, loopVars, catalogVars>>

\* await client_memory.add_message("assistant", response.reply); return response
\* (agent.py 121-125)
AddAssistantMessage ==
    /\ pc = "add_assistant"
    /\ LET c == turn.request.client_id IN
        /\ memory' = [memory EXCEPT ![c] =
                        add_message(@, "assistant", turn.response.reply, Null, <<>>, now)]
        /\ last' = Returned("process_message", c, turn.response, Null)
    /\ turn' = [turn EXCEPT !.status = "returned",
                            !.history = <<>>, !.learned = ClientPreferences(0),
                            !.tool_calls = <<>>, !.tool_results = <<>>,
                            !.response_text = ""]
    /\ pc' = "idle"
    /\ UNCHANGED <<apiKey, initialized, now, turns, mergeVars, loopVars, catalogVars>>

----------------------------------------------------------------------------
(* The administrative operations of AgentService *)

\* sum(len(memory.messages) for memory in self._short_term_memory.values())
RECURSIVE SumMessages(_, _)
SumMessages(mem, cs) ==
    IF cs = {} THEN 0
    ELSE LET c == CHOOSE x \in cs : TRUE IN Len(mem[c].messages) + SumMessages(mem, cs \ {c})

\* AgentService.get_conversation_history
agent_get_conversation_history(mem, client_id) ==
    IF client_id \notin DOMAIN mem THEN <<>>
    ELSE get_conversation_history(mem[client_id])

\* a lookup that makes a profile for the client it is asked about
GetConversationHistoryCreates(client_id) ==
    /\ pc = "idle"
    /\ memory' = _get_or_create_client_memory(memory, client_id, now)
    /\ last' = Returned("get_conversation_history", client_id, NoResponse,
                        PyList(agent_get_conversation_history(memory', client_id)))
    /\ UNCHANGED <<apiKey, initialized, pc, turn, now, turns, mergeVars, loopVars, catalogVars>>

GetConversationHistory(client_id) ==
    /\ pc = "idle"
    /\ last' = Returned("get_conversation_history", client_id, NoResponse,
                        PyList(agent_get_conversation_history(memory, client_id)))
    /\ UNCHANGED <<apiKey, initialized, memory, pc, turn, now, turns, mergeVars, loopVars, catalogVars>>

\* AgentService.get_memory_stats
get_memory_stats(mem) ==
    [total_clients |-> Cardinality(DOMAIN mem),
     total_messages |-> SumMessages(mem, DOMAIN mem)]

GetMemoryStats ==
    /\ pc = "idle"
    /\ last' = Returned("get_memory_stats", "", NoResponse, PyDict(get_memory_stats(memory)))
    /\ UNCHANGED <<apiKey, initialized, memory, pc, turn, now, turns, mergeVars, loopVars, catalogVars>>

\* a clear that empties the whole map
clear_all_profiles(mem, client_id) ==
    [ret |-> client_id \in DOMAIN mem, memory |-> [c \in {} |-> ClientMemory(TRUE, 0)]]

\* a clear that answers but forgets the del
clear_keeps_profile(mem, client_id) ==
    [ret |-> client_id \in DOMAIN mem, memory |-> mem]

\* AgentService.clear_client_memory: what it returns and the map it leaves
clear_client_memory(mem, client_id) ==
    IF client_id \in DOMAIN mem
    THEN [ret |-> TRUE, memory |-> [c \in DOMAIN mem \ {client_id} |-> mem[c]]]
    ELSE [ret |-> FALSE, memory |-> mem]

ClearClientMemory(client_id) ==
    /\ pc = "idle"
    /\ LET r == clear_client_memory(memory, client_id) IN
        /\ memory' = r.memory
        /\ last' = Returned("clear_client_memory", client_id, NoResponse, PyBool(r.ret))
    /\ UNCHANGED <<apiKey, initialized, pc, turn, now, turns, mergeVars, loopVars, catalogVars>>

\* AgentService.cleanup
Cleanup ==
    /\ pc = "idle"
    /\ memory' = [c \in {} |-> ClientMemory(TRUE, 0)]
    /\ initialized' = FALSE
    /\ last' = Returned("cleanup", "", NoResponse, Null)
    /\ UNCHANGED <<apiKey, pc, turn, now, turns, mergeVars, loopVars, catalogVars>>

Next ==
    \/ \E request \in Requests : ProcessMessage(request)
    \/ \E e \in TurnExtractions, ord \in Orders : AddUserMessage(e, ord)
    \/ ClaudeStart
    \/ \E raises \in BOOLEAN, response \in LLMResponses : FirstModelCall(raises, response)
    \/ ExecuteTools
    \/ \E raises \in BOOLEAN, response \in LLMResponses : SecondModelCall(raises, response)
    \/ Classify
    \/ AddAssistantMessage
    \/ \E c \in ClientIds : GetConversationHistory(c)
    \/ GetMemoryStats
    \/ \E c \in ClientIds : ClearClientMemory(c)
    \/ Cleanup

Spec == Init /\ [][Next]_vars

MergeNext ==
    /\ \E e \in ExtractedObjects, m \in Messages, ord \in Orders : Merge(e, m, ord)
    /\ UNCHANGED <<serviceVars, loopVars, catalogVars>>

MergeStart ==
    /\ MergeInit
    /\ apiKey = TRUE
    /\ initialized = FALSE
    /\ memory = [c \in {} |-> ClientMemory(TRUE, 0)]
    /\ pc = "idle"
    /\ turn = NoTurn
    /\ last = NoOperation
    /\ turns = 0
    /\ CatalogIdle
    /\ tasks = NoTasks
    /\ running = NoTask

MergeSpec == MergeStart /\ [][MergeNext]_vars

----------------------------------------------------------------------------
(* ClientMemory objects on their own: add_message with the extractor's     *)
(* model answering anything, and a ClientMemory built without extractor.   *)

\* what the extractor's model call gives: it raises, its text is not JSON,
\* or its text is the JSON of value
ExtractorReply(kind, value) == [t |-> "reply", v |-> [kind |-> kind, value |-> value]]

ExtractorReplies ==
    {ExtractorReply("raises", Null), ExtractorReply("not_json", Null)}
    \cup {ExtractorReply("json", o) : o \in TurnExtractions \cup {Null}}

\* extract_preferences: json.loads of the text, {} from both except branches
extract_preferences(reply) ==
    IF reply.v.kind = "json" THEN reply.v.value ELSE Obj(<<>>)

\* an add_message without the try around extraction and merge
add_message_uncaught(mem, role, content, e, ord, t) ==
    [raised |-> /\ role = "user"
                /\ mem.preference_extractor
                /\ update_preferences(mem.preferences, e, content, ord, t).raised,
     memory |-> add_message(mem, role, content, e, ord, t)]

\* add_message as its caller sees it: `except Exception` lets nothing out
add_message_outcome(mem, role, content, e, ord, t) ==
    [raised |-> FALSE, memory |-> add_message(mem, role, content, e, ord, t)]

MemoryStart ==
    /\ memory = [c \in ClientIds |-> ClientMemory(c = "c1", 0)]
    /\ apiKey = TRUE
    /\ initialized = FALSE
    /\ pc = "idle"
    /\ turn = NoTurn
    /\ last = NoOperation
    /\ now = 0
    /\ turns = 0
    /\ CatalogIdle
    /\ prefs = ClientPreferences(0)
    /\ prevPrefs = ClientPreferences(0)
    /\ extracted = Null
    /\ source = ""
    /\ mergeRaised = FALSE
    /\ merges = 0
    /\ tasks = NoTasks
    /\ running = NoTask

\* await memory[c].add_message(role, content); the extractor is asked for
\* user messages only, and only when there is one
AddMessage(c, role, content, reply, ord) ==
    /\ turns < MaxMessages
    /\ LET asks == role = "user" /\ memory[c].preference_extractor
           r == add_message_outcome(memory[c], role, content,
                                    IF asks THEN extract_preferences(reply) ELSE Null,
                                    ord, now + 1)
       IN /\ memory' = [memory EXCEPT ![c] = r.memory]
          /\ last' = IF r.raised THEN Raised("add_message", c, "Exception")
                     ELSE Returned("add_message", c, NoResponse, Null)
          /\ extracted' = IF asks THEN reply ELSE Null
    /\ source' = content
    /\ now' = now + 1
    /\ turns' = turns + 1
    /\ UNCHANGED <<apiKey, initialized, pc, turn, prefs, prevPrefs, mergeRaised, merges, loopVars, catalogVars>>

MemoryNext ==
    \E c \in ClientIds, role \in {"user", "assistant"}, content \in Messages,
       reply \in ExtractorReplies, ord \in Orders :
        AddMessage(c, role, content, reply, ord)

MemorySpec == MemoryStart /\ [][MemoryNext]_vars

----------------------------------------------------------------------------
(* The event loop with several requests in flight.  reply_to_message is an  *)
(* `async def`, so every request is a task of one loop; a task runs until   *)
(* it awaits something that is not ready.  The awaits of process_message    *)
(* are the points a task can stand at: "initialize" (_initialize_if_needed),*)
(* "extract" (extract_preferences inside add_message), "claude"             *)
(* (ClaudeAgentService.process_message with its tool calls).                *)

\* awaits that hand the loop to another task, as they would with an
\* asynchronous model client
SuspendsAtModelCalls(point) == point \in {"extract", "claude"}

\* the await at point suspends the task: none does, the awaited coroutines
\* call the synchronous client and the tools directly and await no future
Suspends(point) == FALSE

\* the loop after task t has reached point
Hand(t, point) == IF point = "done" \/ Suspends(point) THEN NoTask ELSE t

\* the loop may run task t
MayRun(t) == running \in {NoTask, t}

\* the responses ClaudeAgentService.process_message returns for a lead: the
\* fallback or a text with its action; one that validates has no proposed time
ClaudeResponses(lead_name) ==
    {ClaudeFallback(lead_name)}
    \cup {ChatResponse(txt, _extract_action_and_time(txt, 0).action, Null) :
            txt \in {x \in ReplyTexts \cup {ReplyChecking} :
                        ChatResponseValid(_extract_action_and_time(x, 0).proposed_time)}}

LoopStart ==
    /\ apiKey = TRUE
    /\ initialized = FALSE
    /\ memory = [c \in {} |-> ClientMemory(TRUE, 0)]
    /\ pc = "idle"
    /\ turn = NoTurn
    /\ last = NoOperation
    /\ now = 0
    /\ turns = 0
    /\ CatalogIdle
    /\ prefs = ClientPreferences(0)
    /\ prevPrefs = ClientPreferences(0)
    /\ extracted = Null
    /\ source = ""
    /\ mergeRaised = FALSE
    /\ merges = 0
    /\ tasks = NoTasks
    /\ running = NoTask

\* a request arrives and gets its task, whatever the loop is doing
Arrive(t, request) ==
    /\ tasks[t].pc = "absent"
    /\ \A u \in TaskIds : u < t => tasks[u].pc # "absent"
    /\ tasks' = [tasks EXCEPT ![t] =
                    [AbsentTask EXCEPT
                        !.pc = "ready",
                        !.request = request,
                        !.concurrent = \E u \in TaskIds : tasks[u].pc \notin {"absent", "done"}]]
    /\ UNCHANGED <<serviceVars, now, mergeVars, running, catalogVars>>

\* process_message up to the await inside _initialize_if_needed (agent.py 101, 74-84)
Begin(t) ==
    /\ tasks[t].pc = "ready"
    /\ MayRun(t)
    /\ apiKey
    /\ tasks' = [tasks EXCEPT ![t].pc = "initialize"]
    /\ running' = Hand(t, "initialize")
    /\ UNCHANGED <<serviceVars, now, mergeVars, catalogVars>>

\* the rest of the initialization, the profile, update_context and add_message
\* up to the await of extract_preferences (agent.py 86-89, 103-115, 27-39)
Accept(t) ==
    /\ tasks[t].pc = "initialize"
    /\ MayRun(t)
    /\ LET request == tasks[t].request
           c == request.client_id
           created == _get_or_create_client_memory(memory, c, now + 1)
           updated == update_context(created[c], request.lead, request.preferences,
                                     request.community_id)
       IN /\ memory' = [created EXCEPT ![c] = append_message(updated, "user", request.message)]
          /\ tasks' = [tasks EXCEPT ![t].pc = "extract",
                                    ![t].user_index = Len(created[c].messages) + 1]
    /\ initialized' = TRUE
    /\ now' = now + 1
    /\ running' = Hand(t, "extract")
    /\ UNCHANGED <<apiKey, pc, turn, last, turns, mergeVars, catalogVars>>

\* the extractor has answered: the merge, the end of add_message and
\* ClaudeAgentService.process_message up to its model call (agent.py 41-52, 118)
MergeUser(t, e, ord) ==
    /\ tasks[t].pc = "extract"
    /\ MayRun(t)
    /\ LET request == tasks[t].request
           c == request.client_id
           merged == merge_extracted(memory[c], request.message, e, ord, now + 1)
       IN /\ c \in DOMAIN memory
          /\ memory' = [memory EXCEPT ![c] = merged]
          /\ tasks' = [tasks EXCEPT
                          ![t].pc = "claude",
                          ![t].extracted = e,
                          ![t].merged = /\ Truthy(e)
                                        /\ ~update_preferences(memory[c].preferences, e,
                                                               request.message, ord, now + 1).raised]
    /\ now' = now + 1
    /\ running' = Hand(t, "claude")
    /\ UNCHANGED <<apiKey, initialized, pc, turn, last, turns, mergeVars, catalogVars>>

\* the Claude service has answered: add_message("assistant", ...) and the
\* return, or the IndexError of a name without a word (agent.py 118-135)
Respond(t, response) ==
    /\ tasks[t].pc = "claude"
    /\ MayRun(t)
    /\ LET request == tasks[t].request
           c == request.client_id
           words == Split(request.lead.name)
       IN /\ c \in DOMAIN memory
          /\ IF words = <<>>
             THEN /\ AgentFallback(request).raised
                  /\ response = NoResponse
                  /\ memory' = memory
                  /\ tasks' = [tasks EXCEPT ![t].pc = "done", ![t].outcome = "raised"]
             ELSE /\ response \in ClaudeResponses(words[1])
                  /\ memory' = [memory EXCEPT ![c] =
                                    add_message(@, "assistant", response.reply, Null, <<>>, now)]
                  /\ tasks' = [tasks EXCEPT
                                  ![t].pc = "done",
                                  ![t].outcome = "returned",
                                  ![t].response = response,
                                  ![t].reply_index = Len(memory[c].messages) + 1]
    /\ running' = Hand(t, "done")
    /\ UNCHANGED <<apiKey, initialized, pc, turn, last, now, turns, mergeVars, catalogVars>>

LoopResponses ==
    {NoResponse} \cup UNION {ClaudeResponses(n) : n \in {"Jane", "John"}}

LoopNext ==
    \/ \E t \in TaskIds, request \in Requests : Arrive(t, request)
    \/ \E t \in TaskIds : Begin(t)
    \/ \E t \in TaskIds : Accept(t)
    \/ \E t \in TaskIds, e \in TurnExtractions, ord \in Orders : MergeUser(t, e, ord)
    \/ \E t \in TaskIds, response \in LoopResponses : Respond(t, response)

LoopSpec == LoopStart /\ [][LoopNext]_vars

----------------------------------------------------------------------------
(* The matcher on its own: a PetPolicyVectorSearch object under any          *)
(* sequence of calls of its methods.                                         *)

\* the rest of the program, at rest
ServiceIdle ==
    /\ apiKey = TRUE
    /\ initialized = FALSE
    /\ memory = [c \in {} |-> ClientMemory(TRUE, 0)]
    /\ pc = "idle"
    /\ turn = NoTurn
    /\ last = NoOperation
    /\ turns = 0
    /\ MergeInit
    /\ tasks = NoTasks
    /\ running = NoTask

\* the lists build_index is called with
Vocabularies == {<<>>, <<"cat", "dog">>, <<"fish">>}

\* the queries find_best_match is called with
Queries == {PyStr("kitten"), PyStr(" Kitten "), PyStr("fish"), PyNumber("3")}

\* index.search gives a row of the index
SearchOf(self, search) ==
    search.fails \/ (self.index.t = "IndexFlatIP" /\ search.idx <= Len(self.index.v))

MatcherStart ==
    /\ \E backend \in Backends :
        pet_vector_search = PetPolicyVectorSearch(DefaultThreshold, backend)
    /\ inventory = Snapshot(NoPetPolicies, <<>>)
    /\ lookup = NoLookup
    /\ loading = NoLoad
    /\ ServiceIdle

BuildIndex(pet_types, fails) ==
    LET r == build_index(pet_vector_search, pet_types, fails) IN
    /\ pet_vector_search' = r.self
    /\ lookup' = Lookup("build_index", "", PyList(pet_types), FALSE, PyBool(r.ret), 0, FALSE,
                        pet_vector_search)
    /\ UNCHANGED <<serviceVars, now, mergeVars, loopVars, loading, inventory>>

SetConfidenceThreshold(threshold) ==
    /\ pet_vector_search' = set_confidence_threshold(pet_vector_search, threshold)
    /\ lookup' = Lookup("set_confidence_threshold", "", PyFloat(threshold), FALSE, Null, 0,
                        FALSE, pet_vector_search)
    /\ UNCHANGED <<serviceVars, now, mergeVars, loopVars, loading, inventory>>

FindBestMatch(query, search) ==
    /\ SearchOf(pet_vector_search, search)
    /\ LET r == find_best_match(pet_vector_search, query, search) IN
        /\ pet_vector_search' = r.self
        /\ lookup' = Lookup("find_best_match", "", query, r.raised, r.ret, 1, r.computed,
                            pet_vector_search)
    /\ UNCHANGED <<serviceVars, now, mergeVars, loopVars, loading, inventory>>

ClearCache ==
    LET r == clear_cache(pet_vector_search) IN
    /\ pet_vector_search' = r.self
    /\ lookup' = Lookup("clear_cache", "", Null, r.raised, Null, 0, FALSE, pet_vector_search)
    /\ UNCHANGED <<serviceVars, now, mergeVars, loopVars, loading, inventory>>

MatcherNext ==
    \/ \E pet_types \in Vocabularies, fails \in BuildFailures : BuildIndex(pet_types, fails)
    \/ \E threshold \in Thresholds : SetConfidenceThreshold(threshold)
    \/ \E query \in Queries, search \in Searches : FindBestMatch(query, search)
    \/ ClearCache

MatcherSpec == MatcherStart /\ [][MatcherNext]_vars

----------------------------------------------------------------------------
(* The inventory service: one InventoryService object, loaded once, under    *)
(* any sequence of queries.  The unit and pricing queries do not touch the   *)
(* matcher and the pet policy queries touch nothing else, so each kind has   *)
(* its own specification.                                                    *)

MaxChoice == 2

CatalogStart ==
    /\ \E snapshot \in Snapshots, backend \in Backends, fails \in BuildFailures,
          pet_type_list \in PetTypeLists :
        /\ Range(pet_type_list) = all_pet_types(snapshot.pet_policies)
        /\ inventory = snapshot
        /\ pet_vector_search =
               _init_vector_search(snapshot.pet_policies, backend, pet_type_list, fails)
    /\ lookup = NoLookup
    /\ loading = NoLoad
    /\ ServiceIdle

GetAvailableUnits(community_id, bedrooms) ==
    /\ lookup' = Lookup("get_available_units", community_id, PyInt(bedrooms), FALSE,
                        get_available_units(inventory, community_id, bedrooms), 0, FALSE,
                        pet_vector_search)
    /\ UNCHANGED <<serviceVars, now, mergeVars, loopVars, loading, inventory, pet_vector_search>>

GetPetPolicy(community_id, pet_type, search) ==
    /\ SearchOf(pet_vector_search, search)
    /\ LET r == get_pet_policy(inventory, pet_vector_search, community_id, pet_type, search) IN
        /\ inventory' = r.self
        /\ pet_vector_search' = r.search_object
        /\ lookup' = Lookup("get_pet_policy", community_id, pet_type, r.raised, r.ret,
                            r.matcher_calls, r.computed, pet_vector_search)
    /\ UNCHANGED <<serviceVars, now, mergeVars, loopVars, loading>>

\* random.choice picks one of the specials it is given
ChoiceOf(self, draw, choice) ==
    LET IsOther(s) == s.name # "Summer Special"
        other_specials == SelectSeq(self.specials, IsOther)
    IN IF draw /\ other_specials # <<>> THEN choice <= Len(other_specials) ELSE choice = 1

PricingArgs(unit_id, move_in_date, draw) ==
    [t |-> "args", v |-> [unit_id |-> unit_id, move_in_date |-> move_in_date, draw |-> draw]]

GetPricing(community_id, unit_id, move_in_date, draw, choice) ==
    /\ ChoiceOf(inventory, draw, choice)
    /\ LET r == get_pricing(inventory, community_id, unit_id, move_in_date, draw, choice) IN
        lookup' = Lookup("get_pricing", community_id,
                         PricingArgs(unit_id, move_in_date, draw), r.raised, r.ret, 0, FALSE,
                         pet_vector_search)
    /\ UNCHANGED <<serviceVars, now, mergeVars, loopVars, loading, inventory, pet_vector_search>>

ToolGetPricing(community_id, unit_id, move_in_date, draw, choice) ==
    /\ ChoiceOf(inventory, draw, choice)
    /\ LET r == tools_get_pricing(inventory, community_id, unit_id, move_in_date, draw, choice) IN
        lookup' = Lookup("tools.get_pricing", community_id,
                         PricingArgs(unit_id, move_in_date, draw), r.raised, r.ret, 0, FALSE,
                         pet_vector_search)
    /\ UNCHANGED <<serviceVars, now, mergeVars, loopVars, loading, inventory, pet_vector_search>>

CatalogNext ==
    \/ \E community_id \in CommunityIds, bedrooms \in BedroomCounts :
          GetAvailableUnits(community_id, bedrooms)
    \/ \E community_id \in CommunityIds, unit_id \in UnitIds, move_in_date \in MoveInDates,
          draw \in BOOLEAN, choice \in 1..MaxChoice :
          GetPricing(community_id, unit_id, move_in_date, draw, choice)
    \/ \E community_id \in CommunityIds, unit_id \in UnitIds, move_in_date \in MoveInDates,
          draw \in BOOLEAN, choice \in 1..MaxChoice :
          ToolGetPricing(community_id, unit_id, move_in_date, draw, choice)

CatalogSpec == CatalogStart /\ [][CatalogNext]_vars

\* the pet policy queries of the same service, which use its matcher
PetPolicyNext ==
    \/ \E community_id \in CommunityIds, pet_type \in PetTypes, search \in Searches :
          GetPetPolicy(community_id, pet_type, search)
    \/ \E query \in Queries, search \in Searches : FindBestMatch(query, search)

PetPolicySpec == CatalogStart /\ [][PetPolicyNext]_vars

----------------------------------------------------------------------------
(* InventoryService.reload_data (inventory.py 101-146) with the queries of  *)
(* the service before and after it                                           *)

\* the arguments of the matcher's construction are drawn only when it is built
VectorSearchArgs(pet_policies, backend, pet_type_list, fails) ==
    Range(pet_type_list) = all_pet_types(pet_policies)

ReloadData(data_provider, fails_at, backend, pet_type_list, fails) ==
    /\ loading.pc # "loading"
    /\ IF fails_at = 0
       THEN VectorSearchArgs(data_provider.pet_policies, backend, pet_type_list, fails)
       ELSE backend = "ok" /\ pet_type_list = <<>>
    /\ LET r == reload_data(inventory, pet_vector_search, data_provider, fails_at,
                            backend, pet_type_list, fails)
       IN /\ inventory' = r.self
          /\ pet_vector_search' = r.pet_vector_search
          /\ loading' = LoadCall(IF r.raised THEN "failed" ELSE "idle", fails_at, inventory,
                             pet_vector_search, data_provider)
          /\ lookup' = Lookup("reload_data", "", Null, r.raised, Null, 0, FALSE,
                              pet_vector_search)
    /\ UNCHANGED <<serviceVars, now, mergeVars, loopVars>>

\* the queries asked around a reload
ReloadQueries ==
    \/ \E bedrooms \in 1..2 : GetAvailableUnits("sunset-ridge", bedrooms)
    \/ \E draw \in BOOLEAN, choice \in 1..MaxChoice :
          GetPricing("sunset-ridge", "A101", "2025-7-4", draw, choice)
    \/ \E idx \in 1..2 :
          GetPetPolicy("sunset-ridge", PyStr(" Kitten "), SearchFinds(75, idx))

ReloadNext ==
    \/ \E data_provider \in Providers, fails_at \in LoadFailures,
          pet_type_list \in PetTypeLists :
          ReloadData(data_provider, fails_at, "ok", pet_type_list, "no")
    \/ ReloadQueries

\* the service as constructed from the first files, its matcher built
ReloadStart ==
    /\ inventory = Snapshot(PetPolicies, <<FirstMonthFree, SummerSpecial, MoveInCredit>>)
    /\ pet_vector_search =
           _init_vector_search(PetPolicies, "ok", <<"cat", "dog", "fish">>, "no")
    /\ lookup = NoLookup
    /\ loading = NoLoad
    /\ ServiceIdle

ReloadSpec == ReloadStart /\ [][ReloadNext]_vars

(* reload_data on one thread and the queries on another: the statements of   *)
(* _load_data are the steps, and a query can run between any two of them     *)

\* reload_data is called
StartReload(data_provider) ==
    /\ loading.pc # "loading"
    /\ loading' = LoadCall("loading", 1, inventory, pet_vector_search, data_provider)
    /\ UNCHANGED <<serviceVars, now, mergeVars, loopVars, inventory, pet_vector_search, lookup>>

\* one of the four assignments of _load_data (inventory.py 104-107)
LoadAttribute(raises) ==
    /\ loading.pc = "loading"
    /\ loading.step \in DOMAIN Attributes
    /\ IF raises
       THEN /\ loading' = [loading EXCEPT !.pc = "failed"]
            /\ UNCHANGED inventory
       ELSE /\ inventory' = load(inventory, loading.target, loading.step)
            /\ loading' = [loading EXCEPT !.step = @ + 1]
    /\ UNCHANGED <<serviceVars, now, mergeVars, loopVars, pet_vector_search, lookup>>

\* self._init_vector_search() (inventory.py 111)
InitVectorSearch(backend, pet_type_list, fails) ==
    /\ loading.pc = "loading"
    /\ loading.step = Len(Attributes) + 1
    /\ VectorSearchArgs(inventory.pet_policies, backend, pet_type_list, fails)
    /\ pet_vector_search' =
           _init_vector_search(inventory.pet_policies, backend, pet_type_list, fails)
    /\ loading' = [loading EXCEPT !.pc = "idle"]
    /\ UNCHANGED <<serviceVars, now, mergeVars, loopVars, inventory, lookup>>

ConcurrentReloadNext ==
    \/ \E data_provider \in Providers : StartReload(data_provider)
    \/ \E raises \in BOOLEAN : LoadAttribute(raises)
    \/ \E pet_type_list \in PetTypeLists : InitVectorSearch("ok", pet_type_list, "no")
    \/ ReloadQueries

ConcurrentReloadSpec == ReloadStart /\ [][ConcurrentReloadNext]_vars

----------------------------------------------------------------------------
(* Properties of the merge, under MergeSpec *)

ConfidenceKeys(p) == IF p["confidence_scores"].t = "dict" THEN DOMAIN p["confidence_scores"].v ELSE {}

\* the value the extracted object gives for field f, Null when it gives none
ExtractedValue(e, f) ==
    IF e.t = "object" /\ \E i \in DOMAIN e.v : e.v[i].key = f
    THEN e.v[CHOOSE i \in DOMAIN e.v : e.v[i].key = f].value
    ELSE Null

\* the elements an extracted value brings to a list field
NewElements(value) ==
    CASE value.t = "list" -> Range(value.v)
      [] value.t = "str" -> {value.v}
      [] OTHER -> {}

\* the last merge returned a profile (it was given a non-empty object and did not raise)
Merged == merges > 0 /\ ~mergeRaised /\ extracted.t = "object" /\ extracted.v # <<>>

(* C4: after any sequence of merges, every key of confidence_scores names a  *)
(* preference field, and that field is not None in the profile.              *)
C4_ConfidenceKeysAreSetFields ==
    /\ prefs["confidence_scores"].t = "dict"
    /\ \A k \in ConfidenceKeys(prefs) : k \in PreferenceFields /\ prefs[k] # Null

(* C5: merging the same extracted object a second time leaves every list     *)
(* field with the elements the first merge of it gave, whatever the order in *)
(* which Python iterates its sets.                                            *)
C5_ListMergeIdempotent ==
    merges > 0 =>
        \A ord \in Orders :
            LET again == update_preferences(prefs, extracted, source, ord, now + 1) IN
            \A f \in ListFields : Range(again.prefs[f].v) = Range(prefs[f].v)

C5_Witness ==
    /\ Merged
    /\ ExtractedValue(extracted, "pet_types") = PyList(<<"dog", "cat", "dog">>)
    /\ Range(prevPrefs["pet_types"].v) = {"cat"}
    /\ Range(prefs["pet_types"].v) = {"dog", "cat"}

(* C6: in every reachable profile no list field holds an element twice.      *)
C6_NoDuplicatesInLists ==
    \A f \in ListFields : prefs[f].t = "list" /\ NoDuplicates(prefs[f].v)

C6_Witness ==
    /\ Merged
    /\ ExtractedValue(extracted, "pet_types") = PyList(<<"dog", "cat", "dog">>)
    /\ Len(prevPrefs["pet_types"].v) = 1
    /\ Len(prefs["pet_types"].v) = 2

(* C7: a merge that returns a profile has set every scalar field the object  *)
(* gives a non-null value for to that value, every list field to the union   *)
(* of its old elements and the new ones, and left every other preference     *)
(* field as it was.                                                           *)
C7_MergeRule ==
    Merged =>
        \A f \in PreferenceFields :
            LET value == ExtractedValue(extracted, f) IN
            IF value = Null THEN prefs[f] = prevPrefs[f]
            ELSE IF f \in ScalarFields THEN prefs[f] = value
            ELSE Range(prefs[f].v) = Range(prevPrefs[f].v) \cup NewElements(value)

C7_Witness ==
    /\ Merged
    /\ prevPrefs["bedrooms"] = PyInt(2)
    /\ prefs["bedrooms"] = PyInt(1)
    /\ prevPrefs["max_rent"] = PyInt(2000)
    /\ prefs["max_rent"] = PyInt(2000)

----------------------------------------------------------------------------
(* Properties of the service, under Spec *)

\* the last operation was a turn the service accepted, and it is over
TurnDone == pc = "idle" /\ last.op = "process_message" /\ last.error # "ValueError"

IsPrefix(s, t) == Len(s) <= Len(t) /\ \A i \in DOMAIN s : t[i] = s[i]

(* C1: when the first or the second model call of a turn raises, the turn    *)
(* returns a response with action handoff_human and no proposed time, and    *)
(* the client's transcript holds the user message of the turn.               *)
C1_ModelFailureFallsBack ==
    (TurnDone /\ turn.llm_raised) =>
        LET c == turn.request.client_id IN
        /\ last.outcome = "returned"
        /\ last.response.action = "handoff_human"
        /\ last.response.proposed_time = Null
        /\ c \in DOMAIN memory
        /\ Len(memory[c].messages) > Len(turn.before.messages)
        /\ memory[c].messages[Len(turn.before.messages) + 1]
             = Message("user", turn.request.message)

C1_Witness ==
    /\ TurnDone
    /\ turn.llm_raised
    /\ turn.calls = 2
    /\ last.outcome = "returned"
    /\ last.response.action = "handoff_human"

(* C2: once the service is initialized, process_message returns a response   *)
(* for every request and never raises.                                        *)
C2_ProcessMessageNeverRaises ==
    (initialized /\ last.op = "process_message") => last.outcome = "returned"

C8_TurnWithoutPreferences ==
    (TurnDone /\ turn.extracted = Obj(<<>>)) =>
        LET c == turn.request.client_id
            n == Len(turn.before.messages)
        IN  /\ c \in DOMAIN memory
            /\ Len(memory[c].messages) = n + 2
            /\ IsPrefix(turn.before.messages, memory[c].messages)
            /\ memory[c].messages[n + 1] = Message("user", turn.request.message)
            /\ memory[c].messages[n + 2].role = "assistant"
            /\ memory[c].preferences = turn.before.preferences
            /\ memory[c].lead_info = [t |-> "dict", v |-> turn.request.lead]
            /\ memory[c].community_id = PyStr(turn.request.community_id)

(* C9: clear_client_memory(c) returns true exactly when c had a profile, and *)
(* leaves none: the history of c is then empty and another clear of c        *)
(* returns false; the other profiles stay, and with no profile for c         *)
(* nothing changes.                                                           *)
C9_Clear ==
    [][\A c \in ClientIds :
          (last'.op = "clear_client_memory" /\ last'.client_id = c) =>
              /\ last'.ret = PyBool(c \in DOMAIN memory)
              /\ c \notin DOMAIN memory'
              /\ agent_get_conversation_history(memory', c) = <<>>
              /\ ~clear_client_memory(memory', c).ret
              /\ DOMAIN memory' = DOMAIN memory \ {c}
              /\ \A d \in DOMAIN memory' : memory'[d] = memory[d]]_vars

C9_Witness ==
    /\ last.op = "clear_client_memory"
    /\ last.ret = PyBool(TRUE)
    /\ last.client_id = "c1"
    /\ "c2" \in DOMAIN memory

(* C10: while a profile exists its transcript only grows at the end: a step  *)
(* never shortens it and never changes an entry it already holds.            *)
C10_TranscriptAppendOnly ==
    [][\A c \in DOMAIN memory \cap DOMAIN memory' :
          IsPrefix(memory[c].messages, memory'[c].messages)]_vars

C10_Witness ==
    \E c \in DOMAIN memory :
        /\ Len(memory[c].messages) = 4
        /\ memory[c].messages[1].role = "user"
        /\ memory[c].messages[4].role = "assistant"

----------------------------------------------------------------------------
(* Properties of ClientMemory.add_message, under MemorySpec *)

(* C11: add_message always appends the message and never raises; for a     *)
(* user message, when the extractor raises, answers with something that is  *)
(* not JSON, not an object or not mergeable, answers with nothing, or is    *)
(* not configured, the profile's preferences (confidence included) stay as  *)
(* they were.                                                               *)
C11_MessageAlwaysRecorded ==
    [][\A c \in ClientIds :
          (last'.op = "add_message" /\ last'.client_id = c) =>
              LET old == memory[c]
                  new == memory'[c]
                  n == Len(old.messages)
                  failed ==
                      \/ ~old.preference_extractor
                      \/ extracted'.t # "reply"
                      \/ extracted'.v.kind \in {"raises", "not_json"}
                      \/ LET e == extracted'.v.value IN
                            \/ ~Truthy(e)
                            \/ e.t # "object"
                            \/ \E ord \in Orders :
                                  update_preferences(old.preferences, e, source', ord, now').raised
              IN  /\ last'.outcome = "returned"
                  /\ Len(new.messages) = n + 1
                  /\ IsPrefix(old.messages, new.messages)
                  /\ new.messages[n + 1].content = source'
                  /\ new.messages[n + 1].role \in {"user", "assistant"}
                  /\ (new.messages[n + 1].role = "assistant" \/ failed)
                        => new.preferences = old.preferences]_vars

C11_Witness ==
    /\ last.op = "add_message"
    /\ last.client_id = "c1"
    /\ extracted \in {ExtractorReply("raises", Null),
                      ExtractorReply("json", NonDict),
                      ExtractorReply("json", Obj(<<Pair("max_rent", PyInt(1500)),
                                                   Pair("pet_types", BadList)>>))}
    /\ memory["c1"].preferences["bedrooms"] = PyInt(2)
    /\ Len(memory["c1"].messages) >= 2
    /\ memory["c1"].messages[Len(memory["c1"].messages)].role = "user"

----------------------------------------------------------------------------
(* Properties of the turn pipeline, under Spec *)

\* the transcript of the client of the current turn
Transcript == memory[turn.request.client_id].messages

(* C12: in a turn the language model is called at most twice and tools run  *)
(* in at most one round; the second call is made exactly when the first     *)
(* response asked for a tool, and what the second response asks for is      *)
(* never executed.                                                          *)
C12_TwoCallsOneToolRound ==
    /\ turn.calls \in 0..2
    /\ turn.tool_rounds \in 0..1
    /\ pc = "tools" => (turn.calls = 1 /\ turn.tool_rounds = 0 /\ turn.tool_calls # <<>>)
    /\ pc = "second_call" => (turn.calls = 1 /\ turn.tool_rounds = 1 /\ turn.tool_calls # <<>>)
    /\ pc \in {"classify", "add_assistant"} =>
            /\ turn.calls >= 1
            /\ (turn.calls = 2) <=> (turn.tool_calls # <<>>)
            /\ (turn.calls = 2) <=> (turn.tool_rounds = 1)
    /\ (pc = "idle" /\ turn.status = "returned") =>
            /\ turn.calls >= 1
            /\ (turn.calls = 2) <=> (turn.tool_rounds = 1)

\* a turn whose second response asked for tools again: only ReplyChecking
\* comes with tool_use blocks
C12_Witness ==
    /\ TurnDone
    /\ turn.status = "returned"
    /\ turn.second_text = ReplyChecking
    /\ turn.calls = 2
    /\ turn.tool_rounds = 1
    /\ last.response.reply = ReplyChecking

(* C13: the phases of a turn come in one order and once: the user's message *)
(* is in the transcript before the first model call, the tool round and the *)
(* second call come after the first call, classification comes after the   *)
(* final text, and the assistant's reply is appended last.                  *)
C13_PhasesInOrder ==
    /\ pc = "add_user" =>
            /\ Transcript = turn.before.messages
            /\ turn.calls = 0
    /\ pc \in {"claude", "first_call", "tools", "second_call", "classify", "add_assistant"} =>
            Transcript = Append(turn.before.messages, Message("user", turn.request.message))
    /\ pc \in {"claude", "first_call"} =>
            (turn.calls = 0 /\ turn.tool_rounds = 0 /\ turn.classified = NoClassification)
    /\ pc = "tools" =>
            (turn.calls = 1 /\ turn.tool_rounds = 0 /\ turn.classified = NoClassification)
    /\ pc = "second_call" =>
            (turn.calls = 1 /\ turn.tool_rounds = 1 /\ turn.classified = NoClassification)
    /\ pc = "classify" =>
            /\ turn.classified = NoClassification
            /\ turn.response = NoResponse
            /\ turn.calls = 1 + turn.tool_rounds
            /\ turn.response_text \in ReplyTexts \cup {ReplyChecking}
    /\ pc = "add_assistant" =>
            /\ turn.classified # NoClassification \/ turn.llm_raised
            /\ turn.response # NoResponse
    /\ (TurnDone /\ turn.status = "returned") =>
            Transcript = turn.before.messages
                            \o <<Message("user", turn.request.message),
                                 Message("assistant", turn.response.reply)>>

C13_Witness ==
    /\ pc = "add_assistant"
    /\ turn.calls = 2
    /\ turn.tool_rounds = 1
    /\ turn.classified.action = "handoff_human"
    /\ Len(turn.before.messages) = 2

(* C14: a turn whose final text holds a tour marker returns propose_tour     *)
(* with a proposed time; a turn classified ask_clarification or              *)
(* handoff_human returns no proposed time.                                   *)
C14_TourHasProposedTime ==
    (pc = "add_assistant" /\ turn.classified # NoClassification) =>
        /\ AnyIn(TourPhrases, Lower(turn.response_text)) =>
                (turn.response.action = "propose_tour" /\ turn.response.proposed_time # Null)
        /\ turn.classified.action \in {"ask_clarification", "handoff_human"} =>
                turn.response.proposed_time = Null

(* C15: classification gives every final text one of the three actions:     *)
(* propose_tour when it holds a tour marker, else ask_clarification when it *)
(* holds a clarification marker, else handoff_human when it holds a handoff *)
(* marker, else ask_clarification.                                          *)
C15_ClassificationOrder ==
    (pc = "add_assistant" /\ turn.classified # NoClassification) =>
        LET marks == Occurs(Lower(turn.response_text))
            action == turn.classified.action
        IN  /\ action \in {"propose_tour", "ask_clarification", "handoff_human"}
            /\ action =
                 IF marks \cap TourPhrases # {} THEN "propose_tour"
                 ELSE IF marks \cap ClarificationPhrases # {} THEN "ask_clarification"
                 ELSE IF marks \cap HandoffPhrases # {} THEN "handoff_human"
                 ELSE "ask_clarification"
            /\ turn.response_text = ReplyMixed => action = "propose_tour"
            /\ turn.response_text = ReplyAskOrHandoff => action = "ask_clarification"
            /\ turn.response_text = ReplyHandoff => action = "handoff_human"
            /\ turn.response_text \in {ReplyPlain, ReplyChecking} => action = "ask_clarification"

C15_Witness ==
    /\ pc = "add_assistant"
    /\ turn.response_text = ReplyAskOrHandoff
    /\ turn.classified.action = "ask_clarification"
    /\ turn.response = ChatResponse(ReplyAskOrHandoff, "ask_clarification", Null)

(* C16: without model credentials every process_message raises the          *)
(* configuration error, the service never becomes initialized, and no       *)
(* profile is created or changed.                                           *)
C16_MissingCredentialsFailFast ==
    ~apiKey =>
        /\ ~initialized
        /\ DOMAIN memory = {}
        /\ pc = "idle"
        /\ turn = NoTurn
        /\ last.op = "process_message" =>
                (last.outcome = "raised" /\ last.error = "ValueError"
                 /\ last.response = NoResponse)

C16_Witness ==
    /\ ~apiKey
    /\ last = Raised("process_message", "c1", "ValueError")

(* C17: an operation for one client leaves the profile of every other       *)
(* client as it was (transcript, preferences with confidence and source     *)
(* messages, lead info, community id), and what a turn gives the model is   *)
(* its own client's earlier transcript and learned preferences.             *)
C17_ClientsIsolated ==
    [][LET turnStep == pc # "idle" \/ pc' # "idle"
           forClient == turnStep \/ last'.op \in {"process_message", "clear_client_memory",
                                                   "get_conversation_history"}
           a == IF turnStep THEN turn'.request.client_id ELSE last'.client_id
       IN  /\ \A b \in DOMAIN memory :
                  (forClient /\ a # b) => (b \in DOMAIN memory' /\ memory'[b] = memory[b])
           /\ pc' \in {"first_call", "tools", "second_call"} =>
                  /\ a \in DOMAIN memory'
                  /\ turn'.history = SubSeq(memory'[a].messages, 1, Len(memory'[a].messages) - 1)
                  /\ turn'.learned = memory'[a].preferences]_vars

C17_Witness ==
    /\ pc = "first_call"
    /\ turn.request.client_id = "c1"
    /\ "c2" \in DOMAIN memory
    /\ Len(memory["c2"].messages) = 2
    /\ memory["c2"].preferences["bedrooms"] = PyInt(2)
    /\ turn.history = <<>>
    /\ turn.learned["bedrooms"] = Null
    /\ turn.learned["has_pets"] = PyBool(TRUE)

(* C20: a profile exists exactly when its client has had an accepted turn   *)
(* since its last clear or the last cleanup: only the start of an accepted  *)
(* turn creates one, empty; only clear_client_memory of that client and     *)
(* cleanup remove one; get_conversation_history and get_memory_stats        *)
(* change nothing.                                                          *)
C20_ProfileLifecycle ==
    [][/\ \A c \in ClientIds :
            /\ (c \notin DOMAIN memory /\ c \in DOMAIN memory') =>
                    /\ pc = "idle" /\ pc' = "add_user"
                    /\ turn'.request.client_id = c
                    /\ memory'[c].messages = <<>>
                    /\ memory'[c].preferences = ClientPreferences(now')
            /\ (c \in DOMAIN memory /\ c \notin DOMAIN memory') =>
                    /\ pc = "idle" /\ pc' = "idle"
                    /\ \/ last'.op = "cleanup"
                       \/ last'.op = "clear_client_memory" /\ last'.client_id = c
       /\ pc' # "idle" => turn'.request.client_id \in DOMAIN memory'
       /\ (pc = "idle" /\ pc' = "idle" /\ last'.op = "cleanup") => DOMAIN memory' = {}
       /\ (pc = "idle" /\ pc' = "idle" /\ last'.op = "clear_client_memory") =>
                last'.client_id \notin DOMAIN memory'
       /\ (pc = "idle" /\ pc' = "idle"
             /\ last'.op \in {"get_conversation_history", "get_memory_stats"}) =>
                memory' = memory]_vars

\* two turns were accepted, the second one the first of c2, and only c2 is left
C20_Witness ==
    /\ last.op = "get_memory_stats"
    /\ last.ret = PyDict([total_clients |-> 1, total_messages |-> 2])
    /\ turns = 2
    /\ turn.status = "returned"
    /\ turn.request.client_id = "c2"
    /\ ~turn.before.existed
    /\ DOMAIN memory = {"c2"}

(* C32: _execute_tool_calls returns exactly one result per requested tool    *)
(* call, in request order and carrying that call's tool_use_id; a call that  *)
(* names an unknown tool yields an 'Unknown tool' error result for that call *)
(* only, without raising and without keeping the other calls from executing. *)
C32_OneResultPerToolCall ==
    pc = "second_call" =>
        /\ turn.tool_rounds = 1
        /\ Len(turn.tool_results) = Len(turn.tool_calls)
        /\ \A i \in DOMAIN turn.tool_calls :
              LET tool_call == turn.tool_calls[i]
                  result == turn.tool_results[i]
              IN /\ result.tool_use_id = tool_call.id
                 /\ result.kind = "unknown_tool" <=> tool_call.name \notin KnownTools
                 /\ result.kind = "result" <=>
                        (tool_call.name \in KnownTools /\ tool_call.args = "valid")

C32_Witness ==
    /\ pc = "second_call"
    /\ Len(turn.tool_calls) = 3
    /\ turn.tool_calls[1].name = "unknown_tool"
    /\ turn.tool_results[1] = [tool_use_id |-> "t1", kind |-> "unknown_tool"]
    /\ turn.tool_results[2] = [tool_use_id |-> "t2", kind |-> "error"]
    /\ turn.tool_results[3] = [tool_use_id |-> "t3", kind |-> "result"]

(* C35: with the turns of a client processed one after another, after every  *)
(* completed turn, normal or fallback, that client's transcript has even     *)
(* length and alternates user, assistant, starting with user; the fallback   *)
(* reply of a failed turn is the assistant entry paired with its user        *)
(* message.                                                                  *)
C35_TranscriptAlternates ==
    (pc = "idle" /\ last.op = "process_message" /\ last.outcome = "returned") =>
        LET messages == memory[last.client_id].messages IN
        /\ Len(messages) % 2 = 0
        /\ \A i \in DOMAIN messages :
              messages[i].role = IF i % 2 = 1 THEN "user" ELSE "assistant"
        /\ messages[Len(messages)].content = last.response.reply

----------------------------------------------------------------------------
(* Properties of turns in flight together, under LoopSpec *)

\* task u has appended its user message and not yet its reply
MidTurn(u) == tasks[u].pc \in {"extract", "claude"}

ClientOf(t) == tasks[t].request.client_id

(* C18: turns of one client do not interleave: while a turn stands between  *)
(* the append of its user message and the append of its reply, no step of   *)
(* another turn appends to that client's transcript or merges into its      *)
(* preferences, so the reply lands right after the user message.            *)
C18_TurnsDoNotInterleave ==
    [][\A u \in TaskIds :
          /\ (MidTurn(u) /\ tasks'[u] = tasks[u]) =>
                /\ memory'[ClientOf(u)].messages = memory[ClientOf(u)].messages
                /\ memory'[ClientOf(u)].preferences = memory[ClientOf(u)].preferences
          /\ (MidTurn(u) /\ tasks'[u].pc = "done" /\ tasks'[u].outcome = "returned") =>
                /\ tasks'[u].reply_index = tasks'[u].user_index + 1
                /\ memory'[ClientOf(u)].messages[tasks'[u].user_index]
                        = Message("user", tasks'[u].request.message)]_vars

\* the second request came in while the first turn of the same client was
\* between its two appends, and both turns have returned
C18_Witness ==
    /\ \A t \in TaskIds : tasks[t].pc = "done" /\ tasks[t].outcome = "returned"
    /\ ClientOf(1) = ClientOf(2)
    /\ tasks[2].concurrent
    /\ tasks[1].user_index = 1 /\ tasks[1].reply_index = 2
    /\ tasks[2].user_index = 3 /\ tasks[2].reply_index = 4

----------------------------------------------------------------------------
(* Properties of the merge's metadata, under MergeSpec *)

\* the last merge was given a non-null value for at least one preference field
UpdatedAField == \E f \in PreferenceFields : ExtractedValue(extracted, f) # Null

(* C21: a merge appends its source message to source_messages, once, and     *)
(* refreshes last_updated exactly when it updated a preference field; a      *)
(* merge that updates none leaves source_messages and last_updated as they   *)
(* were.                                                                     *)
C21_SourceOnlyWhenUpdated ==
    merges > 0 =>
        IF Merged /\ UpdatedAField
        THEN /\ prefs["source_messages"].t = "list"
             /\ source \in Range(prefs["source_messages"].v)
             /\ NoDuplicates(prefs["source_messages"].v)
             /\ prefs["last_updated"] = PyTime(now)
        ELSE /\ prefs["source_messages"] = prevPrefs["source_messages"]
             /\ prefs["last_updated"] = prevPrefs["last_updated"]

(* C22: the confidence stored for a field a merge has set is the value of    *)
(* the table for the field name and the source message, whatever the profile *)
(* held before, and lies between 0 and 1.                                    *)
C22_ConfidenceFromTable ==
    Merged =>
        \A f \in PreferenceFields :
            LET value == ExtractedValue(extracted, f) IN
            value # Null =>
                /\ f \in ConfidenceKeys(prefs)
                /\ prefs["confidence_scores"].v[f] = _calculate_confidence(f, value, source)
                /\ prefs["confidence_scores"].v[f] \in 0..100
                /\ (f = "bedrooms" /\ source = MsgBedroom) => prefs["confidence_scores"].v[f] = 95
                /\ (f = "max_rent" /\ source = MsgBedroom) => prefs["confidence_scores"].v[f] = 90
                /\ (f = "has_pets" /\ source = MsgCats) => prefs["confidence_scores"].v[f] = 95
                /\ (f = "urgency_level" /\ source = MsgAsap) => prefs["confidence_scores"].v[f] = 90
                /\ (f = "urgency_level" /\ source = MsgCats) => prefs["confidence_scores"].v[f] = 70
                /\ (f = "bedrooms" /\ source = MsgCats) => prefs["confidence_scores"].v[f] = 80

(* C36: a merge is all-or-nothing: update_preferences never changes the      *)
(* preferences object it is given, and when a merge raises partway the       *)
(* stored preferences, confidence scores and source messages are exactly     *)
(* what they were before the message.                                        *)
C36_MergeAllOrNothing ==
    mergeRaised => prefs = prevPrefs

C36_Witness ==
    /\ mergeRaised
    /\ merges = 2
    /\ extracted.t = "object"
    /\ Len(extracted.v) >= 2
    /\ extracted.v[1].key \in ScalarFields
    /\ extracted.v[1].value # Null
    /\ extracted.v[1].value # prevPrefs[extracted.v[1].key]
    /\ prefs = prevPrefs
    /\ prefs # ClientPreferences(0)

(* C37: a merge writes only declared preference fields: whatever keys the    *)
(* extractor output has, the metadata fields change only by the merge's own  *)
(* bookkeeping, the keys of confidence_scores stay a subset of the           *)
(* preference field names and every confidence lies between 0 and 1.         *)
C37_MergeWritesOnlyPreferenceFields ==
    merges > 0 =>
        /\ prefs["confidence_scores"].t = "dict"
        /\ ConfidenceKeys(prefs) \subseteq PreferenceFields
        /\ \A k \in ConfidenceKeys(prefs) : prefs["confidence_scores"].v[k] \in 0..100
        /\ prefs["source_messages"].t = "list"
        /\ prefs["source_messages"].v \in
               {prevPrefs["source_messages"].v, Append(prevPrefs["source_messages"].v, source)}
        /\ prefs["last_updated"] \in {prevPrefs["last_updated"], PyTime(now)}

\* what the profile has learned stays: scalars stay set, lists keep their elements
FieldsKept ==
    /\ \A f \in ScalarFields : prevPrefs[f] # Null => prefs[f] # Null
    /\ \A f \in ListFields : Range(prevPrefs[f].v) \subseteq Range(prefs[f].v)

(* C38: merges never discard learned information: a scalar preference field  *)
(* that has become non-null never becomes null again, the element set of     *)
(* each list field only grows, and a confidence entry once present is never  *)
(* removed.                                                                  *)
C38_MergesNeverDiscard ==
    merges > 0 =>
        /\ FieldsKept
        /\ ConfidenceKeys(prevPrefs) \subseteq ConfidenceKeys(prefs)

----------------------------------------------------------------------------
(* Properties of the unit and pricing queries, under CatalogSpec *)

\* the community is in units.json
KnownCommunity == lookup.community_id \in DOMAIN inventory.units

\* the unit asked for is a unit of the community asked for
KnownUnit ==
    /\ KnownCommunity
    /\ \E u \in Range(inventory.units[lookup.community_id]) : u.unit_id = lookup.arg.v.unit_id

(* C23: get_available_units(c, n) returns exactly the units of community c   *)
(* that are available and have n bedrooms, and the empty list, without       *)
(* raising, when c is unknown.                                               *)
C23_AvailableUnits ==
    lookup.op = "get_available_units" =>
        /\ ~lookup.raised
        /\ lookup.ret.t = "list"
        /\ IF KnownCommunity
           THEN /\ Range(lookup.ret.v) =
                       {u \in Range(inventory.units[lookup.community_id]) :
                           u.available /\ u.bedrooms = lookup.arg.v}
                /\ NoDuplicates(lookup.ret.v)
           ELSE lookup.ret.v = <<>>

C23_Witness ==
    /\ lookup.op = "get_available_units"
    /\ lookup.community_id = "sunset-ridge"
    /\ lookup.arg = PyInt(2)
    /\ Len(lookup.ret.v) = 2
    /\ \E u \in Range(inventory.units["sunset-ridge"]) : u.bedrooms = 2 /\ ~u.available

SummerDates == {"2025-06-01", "2025-7-4", "2025-08-31"}

ListsSummerSpecial(quote) ==
    \E i \in DOMAIN quote.specials : quote.specials[i].name = "Summer Special"

(* C29: a quote for a known unit with a move-in date in June, July or August *)
(* lists 'Summer Special' whenever the snapshot has that special, and a      *)
(* quote for any other month never lists it, whatever the random draw.       *)
C29_SummerSpecialBySeason ==
    (lookup.op = "get_pricing" /\ ~lookup.raised /\ lookup.ret # Null) =>
        /\ KnownUnit
        /\ IF lookup.arg.v.move_in_date \in SummerDates
           THEN (\E i \in DOMAIN inventory.specials :
                     inventory.specials[i].name = "Summer Special")
                <=> ListsSummerSpecial(lookup.ret.v)
           ELSE ~ListsSummerSpecial(lookup.ret.v)

C29_Witness ==
    /\ lookup.op = "get_pricing"
    /\ lookup.arg.v.move_in_date = "2025-08-31"
    /\ lookup.arg.v.draw
    /\ lookup.ret # Null
    /\ Len(lookup.ret.v.specials) = 2
    /\ ListsSummerSpecial(lookup.ret.v)

(* C30: get_pricing returns null exactly when the community is unknown or    *)
(* the unit id is not one of that community's, and the get_pricing tool      *)
(* turns that null into a result with an error text and available = false    *)
(* instead of raising.                                                       *)
C30_UnknownUnitIsReported ==
    /\ lookup.op = "get_pricing" =>
        /\ ~KnownUnit => (~lookup.raised /\ lookup.ret = Null)
        /\ (~lookup.raised /\ lookup.ret = Null) => ~KnownUnit
    /\ (lookup.op = "tools.get_pricing" /\ ~KnownUnit) =>
        /\ ~lookup.raised
        /\ lookup.ret.t = "dict"
        /\ DOMAIN lookup.ret.v = {"error", "available"}
        /\ lookup.ret.v.available = FALSE
        /\ (lookup.community_id = "nowhere" /\ lookup.arg.v.unit_id = "Z9")
               => lookup.ret.v.error = "Unit Z9 not found in nowhere"
        /\ (lookup.community_id = "downtown-lofts" /\ lookup.arg.v.unit_id = "B201")
               => lookup.ret.v.error = "Unit B201 not found in downtown-lofts"
    /\ (lookup.op = "tools.get_pricing" /\ KnownUnit /\ ~lookup.raised) =>
        "error" \notin DOMAIN lookup.ret.v

C30_Witness ==
    /\ lookup.op = "tools.get_pricing"
    /\ lookup.community_id = "downtown-lofts"
    /\ lookup.arg.v.unit_id = "B201"
    /\ lookup.arg.v.move_in_date = "2025-06-31"
    /\ ~lookup.raised
    /\ lookup.ret.v.available = FALSE

\* the specials a quote lists under a name other than 'Summer Special'
OtherListed(quote) ==
    {i \in DOMAIN quote.specials : quote.specials[i].name # "Summer Special"}

(* C33: every pricing quote applies at most one additional special besides   *)
(* Summer Special, that special is never itself 'Summer Special', and        *)
(* 'Summer Special' is listed at most once, so the specials list never has   *)
(* more than two entries.                                                    *)
C33_AtMostOneOtherSpecial ==
    (lookup.op = "get_pricing" /\ ~lookup.raised /\ lookup.ret # Null) =>
        LET quote == lookup.ret.v IN
        /\ Len(quote.specials) <= 2
        /\ Cardinality(OtherListed(quote)) <= 1
        /\ Cardinality(DOMAIN quote.specials \ OtherListed(quote)) <= 1
        /\ \A i \in OtherListed(quote) :
              /\ quote.specials[i].type \in {"first_month_free", "move_in_credit"}
              /\ \E j \in DOMAIN inventory.specials :
                    inventory.specials[j].name = quote.specials[i].name

C33_Witness ==
    /\ lookup.op = "get_pricing"
    /\ ~lookup.raised
    /\ lookup.ret # Null
    /\ Len(inventory.specials) = 3
    /\ Len(lookup.ret.v.specials) = 2
    /\ lookup.ret.v.specials[1].name = "Summer Special"
    /\ lookup.ret.v.specials[2].type = "move_in_credit"

RECURSIVE TotalDiscount(_)
\* sum(special["discount"] for special in applied_specials)
TotalDiscount(applied_specials) ==
    IF applied_specials = <<>> THEN 0
    ELSE Head(applied_specials).discount + TotalDiscount(Tail(applied_specials))

(* C34: in every pricing quote effective_rent equals base_rent minus the sum *)
(* of the discounts of all the specials the quote lists, and                 *)
(* security_deposit equals base_rent.                                        *)
C34_EffectiveRentIsBaseLessDiscounts ==
    (lookup.op = "get_pricing" /\ ~lookup.raised /\ lookup.ret # Null) =>
        LET quote == lookup.ret.v IN
        /\ quote.pricing.effective_rent =
               quote.pricing.base_rent - TotalDiscount(quote.specials)
        /\ quote.pricing.security_deposit = quote.pricing.base_rent

----------------------------------------------------------------------------
(* Properties of the pet policy queries, under PetPolicySpec *)

\* the cache key of the query of the last call
CacheKey == IF lookup.arg.v \in {"kitten", " Kitten "} THEN "kitten" ELSE lookup.arg.v

\* the cache of a matcher, empty when it has none
CacheOf(search_object) ==
    IF search_object.cache.t = "dict" THEN search_object.cache.v ELSE EmptyDict

\* the community is in pet_policies.json
KnownPolicies == lookup.community_id \in DOMAIN inventory.pet_policies

\* the pet type asked for is a key of the policies of the community asked for
ExactKey ==
    /\ KnownPolicies
    /\ lookup.arg.t = "str"
    /\ lookup.arg.v \in Range(Keys(inventory.pet_policies[lookup.community_id]))

\* the matcher can search: it is enabled and has an index
CanSearch(search_object) == search_object.enabled /\ search_object.index.t = "IndexFlatIP"

(* C24: get_pet_policy(c, t) does not call the matcher when t is a pet-type  *)
(* key of c nor when c is unknown; find_best_match is called only after the  *)
(* exact lookup in a known community has missed.                             *)
C24_ExactMatchSkipsMatcher ==
    lookup.op = "get_pet_policy" =>
        /\ (~KnownPolicies \/ ExactKey) =>
               /\ lookup.matcher_calls = 0
               /\ ~lookup.computed
               /\ pet_vector_search = lookup.before
        /\ lookup.matcher_calls > 0 => (KnownPolicies /\ ~ExactKey)
        /\ ExactKey =>
               lookup.ret = PyDict(Get(inventory.pet_policies[lookup.community_id], lookup.arg.v))

C24_Witness ==
    /\ lookup.op = "get_pet_policy"
    /\ ExactKey
    /\ lookup.arg = PyStr("fish")
    /\ CanSearch(lookup.before)
    /\ lookup.matcher_calls = 0
    /\ lookup.ret.v.allowed

\* the answer is the policy of a key of the community found by the matcher
FuzzyAnswer ==
    /\ "matched_type" \in DOMAIN lookup.ret.v
    /\ lookup.ret.v.matched_type \in Range(Keys(inventory.pet_policies[lookup.community_id]))

C28_DegradesToExactMatch ==
    /\ pet_vector_search.model.t # "str" => ~pet_vector_search.enabled
    /\ (lookup.op = "find_best_match" /\ ~CanSearch(lookup.before)) =>
        /\ ~lookup.raised
        /\ lookup.ret = PyTuple(Null, PyFloat(0))
        /\ ~lookup.computed
        /\ pet_vector_search = lookup.before
    /\ (lookup.op = "get_pet_policy" /\ ~CanSearch(lookup.before) /\ KnownPolicies /\ ~ExactKey) =>
        /\ ~lookup.raised
        /\ ~FuzzyAnswer
        /\ lookup.ret.v.allowed = FALSE
        /\ lookup.ret.v.available_types = Keys(inventory.pet_policies[lookup.community_id])

C28_Witness ==
    /\ lookup.op = "get_pet_policy"
    /\ lookup.before.model = Absent
    /\ KnownPolicies
    /\ lookup.community_id = "sunset-ridge"
    /\ lookup.arg = PyStr(" Kitten ")
    /\ lookup.ret.v.allowed = FALSE
    /\ lookup.ret.v.available_types = <<"cat", "dog">>

(* C39: a fuzzy match is used only when the matched vocabulary key is a     *)
(* pet-type key of the requested community: when the best match is a key of  *)
(* other communities only, get_pet_policy gives the not-found result and     *)
(* never another community's policy; a fuzzy-matched answer is a copy, so    *)
(* the catalog's policy entries stay as loaded.                              *)
C39_FuzzyMatchStaysInCommunity ==
    /\ inventory \in Snapshots
    /\ (lookup.op = "get_pet_policy" /\ KnownPolicies /\ ~ExactKey) =>
        LET policies == inventory.pet_policies[lookup.community_id]
            found == CacheOf(pet_vector_search)
        IN
        /\ ~lookup.raised
        /\ IF "matched_type" \in DOMAIN lookup.ret.v
           THEN /\ HasKey(policies, lookup.ret.v.matched_type)
                /\ CacheKey \in DOMAIN found
                /\ found[CacheKey].v[1] = PyStr(lookup.ret.v.matched_type)
                /\ LET policy == Get(policies, lookup.ret.v.matched_type) IN
                    /\ lookup.ret.v.allowed = policy.allowed
                    /\ lookup.ret.v.fee = policy.fee
                    /\ lookup.ret.v.notes = policy.notes
                /\ lookup.ret.v.original_query = lookup.arg.v
           ELSE lookup.ret = PyDict(NotFoundPolicy(policies, lookup.arg))
        /\ (/\ lookup.matcher_calls = 1
            /\ lookup.arg.t = "str"
            /\ CacheKey \in DOMAIN found
            /\ found[CacheKey].v[1] # Null
            /\ ~HasKey(policies, found[CacheKey].v[1].v)) =>
               lookup.ret = PyDict(NotFoundPolicy(policies, lookup.arg))

C39_Witness ==
    /\ lookup.op = "get_pet_policy"
    /\ lookup.community_id = "sunset-ridge"
    /\ lookup.arg = PyStr("fish")
    /\ lookup.matcher_calls = 1
    /\ lookup.computed
    /\ CacheOf(pet_vector_search)["fish"].v[1] = PyStr("fish")
    /\ HasKey(inventory.pet_policies["downtown-lofts"], "fish")
    /\ lookup.ret.v.allowed = FALSE
    /\ lookup.ret.v.available_types = <<"cat", "dog">>

\* a fuzzy-matched answer was given from a catalog that stays as loaded
C39_CopyWitness ==
    /\ lookup.op = "get_pet_policy"
    /\ "matched_type" \in DOMAIN lookup.ret.v
    /\ inventory \in Snapshots

----------------------------------------------------------------------------
(* Properties of reload_data, under ReloadSpec and ConcurrentReloadSpec *)

\* the answer of the query l is one that the whole snapshot s gives for it
AnswerFrom(s, l) ==
    CASE l.op = "get_available_units" ->
            l.ret = get_available_units(s, l.community_id, l.arg.v)
      [] l.op = "get_pricing" ->
            \E choice \in 1..MaxChoice :
                /\ ChoiceOf(s, l.arg.v.draw, choice)
                /\ l.ret = get_pricing(s, l.community_id, l.arg.v.unit_id,
                                       l.arg.v.move_in_date, l.arg.v.draw, choice).ret
      [] l.op = "get_pet_policy" ->
            IF l.community_id \notin DOMAIN s.pet_policies
            THEN l.ret = PyDict([allowed |-> FALSE, notes |-> "Community not found"])
            ELSE LET policies == s.pet_policies[l.community_id] IN
                 \/ l.ret = PyDict(NotFoundPolicy(policies, l.arg))
                 \/ /\ HasKey(policies, l.arg.v)
                    /\ l.ret = PyDict(Get(policies, l.arg.v))
                 \/ /\ "matched_type" \in DOMAIN l.ret.v
                    /\ l.ret.v.matched_type \in all_pet_types(s.pet_policies)
                    /\ HasKey(policies, l.ret.v.matched_type)
                    /\ l.ret.v.allowed = Get(policies, l.ret.v.matched_type).allowed
                    /\ l.ret.v.fee = Get(policies, l.ret.v.matched_type).fee
                    /\ l.ret.v.notes = Get(policies, l.ret.v.matched_type).notes
      [] OTHER -> TRUE

(* C31: reload_data replaces the catalog atomically: a query                 *)
(* (get_available_units, get_pet_policy, get_pricing) that runs while a      *)
(* reload is in progress answers wholly from the snapshot that was active    *)
(* when the reload began or wholly from the new one, never from a mixture.   *)
C31_QueriesSeeOneSnapshot ==
    [][(/\ loading.pc = "loading"
        /\ loading' = loading
        /\ inventory' = inventory
        /\ lookup'.op \in {"get_available_units", "get_pet_policy", "get_pricing"})
       => (AnswerFrom(loading.before, lookup') \/ AnswerFrom(loading.target, lookup'))]_vars

(* C40: if reload_data fails partway, one of the provider's four loads       *)
(* raising, the snapshot that was active stays fully in effect: communities, *)
(* units, pet policies, specials and the matcher's vocabulary are unchanged  *)
(* and later queries answer from the old snapshot only.                      *)
C40_FailedReloadKeepsSnapshot ==
    loading.pc = "failed" =>
        /\ inventory = loading.before
        /\ pet_vector_search.pet_types = loading.matcher.pet_types
        /\ AnswerFrom(loading.before, lookup)

----------------------------------------------------------------------------
(* Properties of the matcher, under MatcherSpec *)

(* C26: whatever calls of build_index, set_confidence_threshold,             *)
(* find_best_match and clear_cache came before, find_best_match returns      *)
(* (key, score) with key in the indexed vocabulary and score at or above the *)
(* current threshold, or (null, score) with score below the current          *)
(* threshold.                                                                *)
C26_AnswerMeetsThreshold ==
    (lookup.op = "find_best_match" /\ ~lookup.raised /\ CanSearch(lookup.before)) =>
        LET key == lookup.ret.v[1]
            score == lookup.ret.v[2].v
            threshold == pet_vector_search.confidence_threshold.v
        IN IF key = Null THEN score < threshold
           ELSE /\ key.v \in Range(pet_vector_search.pet_types.v)
                /\ score >= threshold

(* C27: the cache is keyed by the lower-cased, trimmed query: once a         *)
(* find_best_match has succeeded, every later query with the same            *)
(* normalized text returns the same pair without computing it again, until   *)
(* clear_cache; a lookup that failed is not cached.                          *)
C27_CachedAnswerRepeats ==
    /\ (lookup.op = "find_best_match" /\ lookup.arg.t = "str"
            /\ CacheKey \in DOMAIN CacheOf(lookup.before)) =>
        /\ ~lookup.raised
        /\ lookup.ret = CacheOf(lookup.before)[CacheKey]
        /\ ~lookup.computed
    /\ (lookup.op = "find_best_match" /\ lookup.computed /\ lookup.ret # NoMatch) =>
        /\ CacheKey \in DOMAIN CacheOf(pet_vector_search)
        /\ CacheOf(pet_vector_search)[CacheKey] = lookup.ret
    /\ (lookup.op = "find_best_match" /\ (lookup.raised \/ lookup.ret = NoMatch)) =>
        CacheOf(pet_vector_search) = CacheOf(lookup.before)
    /\ lookup.op \in {"build_index", "set_confidence_threshold"} =>
        CacheOf(pet_vector_search) = CacheOf(lookup.before)

(* C27, amended: the same, for a matcher that is still enabled; a matcher    *)
(* that a failed build_index has disabled answers (null, 0.0) whatever its   *)
(* cache holds.                                                              *)
C27_CachedAnswerRepeatsWhileEnabled ==
    /\ (lookup.op = "find_best_match" /\ lookup.arg.t = "str"
            /\ CacheKey \in DOMAIN CacheOf(lookup.before)) =>
        IF lookup.before.enabled
        THEN /\ ~lookup.raised
             /\ lookup.ret = CacheOf(lookup.before)[CacheKey]
             /\ ~lookup.computed
        ELSE lookup.ret = NoMatch /\ ~lookup.computed
    /\ (lookup.op = "find_best_match" /\ lookup.computed /\ lookup.ret # NoMatch) =>
        /\ CacheKey \in DOMAIN CacheOf(pet_vector_search)
        /\ CacheOf(pet_vector_search)[CacheKey] = lookup.ret
    /\ (lookup.op = "find_best_match" /\ (lookup.raised \/ lookup.ret = NoMatch)) =>
        CacheOf(pet_vector_search) = CacheOf(lookup.before)
    /\ lookup.op \in {"build_index", "set_confidence_threshold"} =>
        CacheOf(pet_vector_search) = CacheOf(lookup.before)

C27_Witness ==
    /\ lookup.op = "find_best_match"
    /\ lookup.arg = PyStr(" Kitten ")
    /\ lookup.before.enabled
    /\ "kitten" \in DOMAIN CacheOf(lookup.before)
    /\ lookup.ret = CacheOf(lookup.before)["kitten"]
    /\ ~lookup.computed

====
